---- MODULE Spec2Model ----
(***************************************************************************)
(* A model of the package inspection tools of rules_pkg (contrib/tools):    *)
(* the streaming comparison engine (tree_size_compare), the SVR4 newc cpio  *)
(* writer and reader, and the RPM writer and reader.                        *)
(*                                                                          *)
(* The module holds several specifications over one set of variables, one   *)
(* per component; a component that a specification does not exercise stays  *)
(* in its idle state.                                                       *)
(*   SpecCompare    stream_compare over an expected tree and a got reader   *)
(*   SpecThreshold  check_size_threshold applied to drawn inputs            *)
(*   SpecCpio       calls on a CpioWriter, and a reader run on its stream    *)
(*   SpecRpm        calls on an RpmWriter, write(), and a reader of the file *)
(*   SpecMode       one add call on a fresh CpioWriter and RpmWriter         *)
(*   SpecPkg        a PkgReader constructed on a XAR file, then enumerated   *)
(*   SpecDmg        get_all_files and a DmgReader over a parsed HFS+ catalog *)
(*   SpecUdif       decompress_udif over a parsed chunk table                *)
(*   SpecPipe       list_contents of rpm_info: producer thread and consumer  *)
(*   SpecTar        a TarReader enumerated over an archive of header names   *)
(*   SpecInfo       main of rpm_info on a command line and a file            *)
(*   SpecHdr        add_* calls on an RpmHeaderBuilder, then build()         *)
(*   SpecCat        _read_catalog walking the leaf chain of a B-tree         *)
(*   SpecBlkx       _find_hfs_blkx over the blkx entries of a DMG plist      *)
(***************************************************************************)
EXTENDS Integers, Sequences, FiniteSets, TLC

VARIABLES
    \* ---- comparison engine (stream_compare) ----
    expected_in,    \* the expected tree as passed in: path -> FileInfo,
                    \* a list of entries in the dict's insertion order
    expected,       \* the working copy stream_compare consumes
    got,            \* the entries the got reader will yield, in order
    got_pos,        \* how many entries the got reader has yielded
    flags,          \* the flags record of the call
    results,        \* the result record: five lists
    cmp_pc,         \* "idle", "start", "scan", "done"
    \* ---- check_size_threshold ----
    thr_old, thr_new, thr_flags, thr_result, thr_pc,
    \* ---- CpioWriter and a reader of what it wrote ----
    cpio_stream,    \* CpioWriter.stream: the bytes written so far
    cpio_inode,     \* CpioWriter._inode
    cpio_calls,     \* the calls made on the writer, in order
    cpio_read,      \* what a CpioReader returned for the stream (status
                    \* "unread" before it ran)
    \* ---- RpmWriter and a reader of the file it wrote ----
    rpm_writer,     \* the RpmWriter: its settings and its files list
    rpm_calls,      \* the add calls made on the writer, in order
    rpm_file,       \* the bytes write() produced (<<>> before it ran)
    rpm_read,       \* what an RPM reader returned for the file
    \* ---- one add call made on a fresh CpioWriter and a fresh RpmWriter ----
    mode_call,      \* the call: its kind and its mode argument
    mode_cpio,      \* the stream of the CpioWriter after the call (<<>>
                    \* before it)
    mode_rpm,       \* the files list of the RpmWriter after the call
    \* ---- PkgReader ----
    pkg_data,       \* the XAR file the reader is constructed on
    pkg_status,     \* "new", "open", or the error that ended construction
    pkg_items,      \* PkgReader.items
    pkg_index,      \* PkgReader.index
    pkg_fed,        \* the bytes the cpio parser was given, per payload
    pkg_out,        \* what the next() calls returned, in order
    pkg_done,       \* what the last is_done() call returned
    \* ---- HfsPlusReader and DmgReader ----
    hfs_entries,    \* HfsPlusReader.entries, in insertion order
    hfs_files,      \* what get_all_files() returned
    hfs_pc,         \* "new", then "listed" once get_all_files() has run
    dmg_status,     \* "new", then "open" once the DmgReader is constructed
    dmg_items,      \* DmgReader.items
    dmg_index,      \* DmgReader.index
    dmg_done,       \* DmgReader.done
    dmg_out,        \* what the next() calls returned, in order
    dmg_asked,      \* what the last is_done() call returned
    \* ---- decompress_udif ----
    udif_chunks,    \* all_chunks: the chunk table of the selected partition
    udif_lzfse,     \* whether the module liblzfse can be imported
    udif_image,     \* image
    udif_k,         \* the chunk the second loop is at (from 1)
    udif_pc,        \* "new", "loop", then "returned" or "raised"
    udif_error,     \* the exception that ended the call ("" when none)
    udif_warnings,  \* the chunks a warning was printed for, in order
    \* ---- rpm_info list_contents: the decompress thread and the caller ----
    pipe_stream,    \* the bytes stream_cpio writes when nothing fails
    pipe_written,   \* the bytes written into the pipe so far
    pipe_buf,       \* the bytes in the pipe
    pipe_closed,    \* whether close() was called on the pipe
    prod_pc,        \* the thread: "unstarted", "try", "except", "finally",
                    \* "done"
    prod_raised,    \* whether stream_cpio raised
    main_pc,        \* the caller: "new", "loop", "join", "returned"
    cons_got,       \* the bytes the CpioReader has read
    cons_eof,       \* whether the last read met the end of the pipe
    \* ---- TarReader ----
    tar_names,      \* the header names of the archive, in archive order
    tar_pos,        \* how many entries the reader has yielded
    tar_paths,      \* the paths of the entries yielded, in order
    tar_pc,         \* "open", then "done" once next() has returned None
    \* ---- main of rpm_info ----
    info_args,      \* the parsed command line
    info_file,      \* the file named: "missing", "malformed", "wellformed"
    info_verbose,   \* --verbose
    info_pc,        \* "try", "dispatch", "except", "return", "done"
    info_raised,    \* the exception raised in the try block ("" when none)
    info_result,    \* what main returned ("0" or "1"), or the exception
                    \* that left it
    \* ---- RpmHeaderBuilder on its own ----
    hdr_entries,    \* RpmHeaderBuilder.entries
    hdr_bytes,      \* what build() returned (<<>> before it ran)
    hdr_pc,         \* "adding", then "built"
    \* ---- HfsPlusReader._read_catalog ----
    cat_nodes,      \* the nodes of the catalog B-tree after the header node
    cat_first_leaf, \* firstLeafNode of the header record
    cat_node_idx,   \* node_idx of the walk
    cat_parsed,     \* how often _parse_leaf_node ran on each node
    cat_pc,         \* "new", "walk", then "returned"
    \* ---- _find_hfs_blkx ----
    blkx_list,      \* the blkx entries of the plist
    blkx_found,     \* the position of the entry returned (0 when none)
    blkx_pc         \* "new", "fallback", then "returned" or "ValueError"

compareVars == <<expected_in, expected, got, got_pos, flags, results, cmp_pc>>
thresholdVars == <<thr_old, thr_new, thr_flags, thr_result, thr_pc>>
cpioVars == <<cpio_stream, cpio_inode, cpio_calls, cpio_read>>
rpmVars == <<rpm_writer, rpm_calls, rpm_file, rpm_read>>
modeVars == <<mode_call, mode_cpio, mode_rpm>>
pkgVars ==
    <<pkg_data, pkg_status, pkg_items, pkg_index, pkg_fed, pkg_out, pkg_done>>
dmgVars ==
    <<hfs_entries, hfs_files, hfs_pc, dmg_status, dmg_items, dmg_index,
      dmg_done, dmg_out, dmg_asked>>
udifVars ==
    <<udif_chunks, udif_lzfse, udif_image, udif_k, udif_pc, udif_error,
      udif_warnings>>
pipeVars ==
    <<pipe_stream, pipe_written, pipe_buf, pipe_closed, prod_pc, prod_raised,
      main_pc, cons_got, cons_eof>>
tarVars == <<tar_names, tar_pos, tar_paths, tar_pc>>
infoVars ==
    <<info_args, info_file, info_verbose, info_pc, info_raised, info_result>>
hdrVars == <<hdr_entries, hdr_bytes, hdr_pc>>
catVars == <<cat_nodes, cat_first_leaf, cat_node_idx, cat_parsed, cat_pc>>
blkxVars == <<blkx_list, blkx_found, blkx_pc>>
vars ==
    <<compareVars, thresholdVars, cpioVars, rpmVars, modeVars, pkgVars,
      dmgVars, udifVars, pipeVars, tarVars, infoVars, hdrVars, catVars,
      blkxVars>>

(***************************************************************************)
(* Generic helpers                                                          *)
(***************************************************************************)
Range(s) == {s[i] : i \in 1..Len(s)}

SeqsUpTo(S, n) == UNION {[1..k -> S] : k \in 0..n}

(***************************************************************************)
(* FileInfo: the canonical entry of every reader.                           *)
(***************************************************************************)
S_IFMT == 61440     \* 0o170000
S_IFDIR == 16384    \* 0o040000
S_IFREG == 32768    \* 0o100000
S_IFLNK == 40960    \* 0o120000

\* symlink_target of an entry that is no symlink (Python None)
None == "None"

FileInfo(path, size, mode, uid, gid, is_dir, is_symlink, symlink_target) ==
    [path |-> path, size |-> size, mode |-> mode, uid |-> uid, gid |-> gid,
     is_dir |-> is_dir, is_symlink |-> is_symlink,
     symlink_target |-> symlink_target]

(***************************************************************************)
(* Path filters.  A pattern is a regular expression of the fragment         *)
(* "literal" or "literal$": lit is the literal, at_end the $ anchor.        *)
(* A path is a sequence of characters.                                      *)
(***************************************************************************)
Pattern(lit, at_end) == [lit |-> lit, at_end |-> at_end]

\* the pattern matches the path with its first character at position i
MatchAt(pat, path, i) ==
    /\ i + Len(pat.lit) - 1 <= Len(path)
    /\ \A k \in 1..Len(pat.lit) : path[i + k - 1] = pat.lit[k]
    /\ pat.at_end => i + Len(pat.lit) - 1 = Len(path)

RECURSIVE SearchFrom(_, _, _)
SearchFrom(pat, path, i) ==
    IF i > Len(path) + 1 THEN FALSE
    ELSE IF MatchAt(pat, path, i) THEN TRUE
    ELSE SearchFrom(pat, path, i + 1)

\* re.match in place of re.search: the pattern is tried at the start of the
\* path only
re_search_AtStart(pat, path) == MatchAt(pat, path, 1)

\* re.search: the pattern is tried at every position of the path
re_search(pat, path) == SearchFrom(pat, path, 1)

RECURSIVE AnyPattern(_, _)
AnyPattern(patterns, path) ==
    IF patterns = <<>> THEN FALSE
    ELSE IF re_search(Head(patterns), path) THEN TRUE
    ELSE AnyPattern(Tail(patterns), path)

should_include_path(path, include_patterns, exclude_patterns) ==
    IF AnyPattern(exclude_patterns, path) THEN FALSE
    ELSE IF include_patterns = <<>> THEN TRUE
    ELSE AnyPattern(include_patterns, path)

(***************************************************************************)
(* check_size_threshold(old, new, flags) -> (passed, message).              *)
(* The message is kept as the quantity it prints: "bytes" with the delta,   *)
(* or "percent" with the ratio 100 * delta / old as num / den.              *)
(***************************************************************************)
Verdict(passed, kind, num, den) ==
    [passed |-> passed, kind |-> kind, num |-> num, den |-> den]

Pass == Verdict(TRUE, "", 0, 1)

\* pct > max_allowed_percent_increase, with pct = 100 * delta / old and an
\* old size of 0 read as an infinite increase when delta > 0
PercentExceeds(old, delta, max_percent) ==
    IF old = 0 THEN delta > 0
    ELSE 100 * delta > max_percent * old

check_size_threshold_Reversed(old, new, f) ==
    LET delta == new - old IN
    IF old < f.minimum_compare_size /\ new < f.minimum_compare_size THEN Pass
    ELSE IF delta < 0 /\ ~f.show_decreases THEN Pass
    ELSE IF f.max_allowed_absolute_increase > 0
            /\ delta < f.max_allowed_absolute_increase
         THEN Verdict(FALSE, "bytes", delta, 1)
    ELSE IF PercentExceeds(old, delta, f.max_allowed_percent_increase)
         THEN Verdict(FALSE, "percent", 100 * delta, old)
    ELSE Pass

check_size_threshold_AbsDelta(old, new, f) ==
    LET delta == IF new >= old THEN new - old ELSE old - new IN
    IF old < f.minimum_compare_size /\ new < f.minimum_compare_size THEN Pass
    ELSE IF new < old /\ ~f.show_decreases THEN Pass
    ELSE IF f.max_allowed_absolute_increase > 0
            /\ delta > f.max_allowed_absolute_increase
         THEN Verdict(FALSE, "bytes", delta, 1)
    ELSE IF PercentExceeds(old, delta, f.max_allowed_percent_increase)
         THEN Verdict(FALSE, "percent", 100 * delta, old)
    ELSE Pass

check_size_threshold(old, new, f) ==
    LET delta == new - old IN
    IF old < f.minimum_compare_size /\ new < f.minimum_compare_size THEN Pass
    ELSE IF delta < 0 /\ ~f.show_decreases THEN Pass
    ELSE IF f.max_allowed_absolute_increase > 0
            /\ delta > f.max_allowed_absolute_increase
         THEN Verdict(FALSE, "bytes", delta, 1)
    ELSE IF PercentExceeds(old, delta, f.max_allowed_percent_increase)
         THEN Verdict(FALSE, "percent", 100 * delta, old)
    ELSE Pass

(***************************************************************************)
(* stream_compare(expected, got_reader, flags)                              *)
(***************************************************************************)
EmptyResults ==
    [only_in_expected |-> <<>>, only_in_got |-> <<>>,
     symlink_target_changed |-> <<>>, metadata_changed |-> <<>>,
     size_changed |-> <<>>]

Included(path, f) ==
    should_include_path(path, f.include_patterns, f.exclude_patterns)

\* the metadata stream_compare compares: uid and gid only on request
Metadata(info, f) ==
    IF f.compare_uid_gid THEN <<info.mode, info.uid, info.gid>>
    ELSE <<info.mode>>

\* Every difference an entry shows against its counterpart, reported
\* independently of the others.
CompareEntry_Independent(res, path, old, new, f) ==
    LET r1 == IF old.is_symlink /\ new.is_symlink
                 /\ old.symlink_target # new.symlink_target
              THEN [res EXCEPT !.symlink_target_changed =
                       Append(@, <<path, old.symlink_target, new.symlink_target>>)]
              ELSE res
        r2 == IF old.is_symlink # new.is_symlink
                 \/ Metadata(old, f) # Metadata(new, f)
              THEN [r1 EXCEPT !.metadata_changed = Append(@, <<path, old, new>>)]
              ELSE r1
    IN  IF ~old.is_dir /\ ~new.is_dir /\ ~old.is_symlink /\ ~new.is_symlink
           /\ old.size # new.size
        THEN LET v == check_size_threshold(old.size, new.size, f)
             IN  [r2 EXCEPT !.size_changed =
                     Append(@, <<path, old.size, new.size, v.passed, v>>)]
        ELSE r2

\* Symlink targets are compared as metadata, not reported on their own.
CompareEntry_TargetAsMetadata(res, path, old, new, f) ==
    IF old.is_symlink # new.is_symlink
       \/ old.symlink_target # new.symlink_target
       \/ Metadata(old, f) # Metadata(new, f)
    THEN [res EXCEPT !.metadata_changed = Append(@, <<path, old, new>>)]
    ELSE IF ~old.is_dir /\ ~new.is_dir /\ old.size # new.size
    THEN LET v == check_size_threshold(old.size, new.size, f)
         IN  [res EXCEPT !.size_changed =
                 Append(@, <<path, old.size, new.size, v.passed, v>>)]
    ELSE res

\* The result record after the got entry `new` met its expected
\* counterpart `old`: the first case that applies decides the list.
CompareEntry(res, path, old, new, f) ==
    IF old.is_symlink /\ new.is_symlink
       /\ old.symlink_target # new.symlink_target
    THEN [res EXCEPT !.symlink_target_changed =
             Append(@, <<path, old.symlink_target, new.symlink_target>>)]
    ELSE IF old.is_symlink # new.is_symlink
    THEN [res EXCEPT !.metadata_changed = Append(@, <<path, old, new>>)]
    ELSE IF Metadata(old, f) # Metadata(new, f)
    THEN [res EXCEPT !.metadata_changed = Append(@, <<path, old, new>>)]
    ELSE IF ~old.is_dir /\ ~new.is_dir /\ ~old.is_symlink /\ ~new.is_symlink
            /\ old.size # new.size
    THEN LET v == check_size_threshold(old.size, new.size, f)
         IN  [res EXCEPT !.size_changed =
                 Append(@, <<path, old.size, new.size, v.passed, v>>)]
    ELSE res

\* The expected tree is a Python dict keyed by path: a list of entries with
\* pairwise-distinct paths, in insertion order.
Paths(tree) == {tree[i].path : i \in DOMAIN tree}

Lookup(tree, path) == tree[CHOOSE i \in DOMAIN tree : tree[i].path = path]

Without(tree, path) == SelectSeq(tree, LAMBDA e : e.path # path)

\* step 1: the path filters applied to the expected side
FilterExpected_Unfiltered(tree, f) == tree

FilterExpected(tree, f) == SelectSeq(tree, LAMBDA e : Included(e.path, f))

CompareStart ==
    /\ cmp_pc = "start"
    /\ expected' = FilterExpected(expected, flags)
    /\ cmp_pc' = "scan"
    /\ UNCHANGED <<expected_in, got, got_pos, flags, results>>

\* the matched expected entry stays in the map
ConsumeExpected_Keep(tree, path) == tree

ConsumeExpected(tree, path) == Without(tree, path)

\* step 2: one iteration of the scan, on the entry got_reader.next() yields
CompareNext ==
    /\ cmp_pc = "scan"
    /\ got_pos < Len(got)
    /\ got_pos' = got_pos + 1
    /\ LET info == got[got_pos + 1]
           path == info.path
       IN  IF ~Included(path, flags)
           THEN UNCHANGED <<expected, results>>
           ELSE IF path \notin Paths(expected)
           THEN /\ results' = [results EXCEPT !.only_in_got =
                                   Append(@, <<path, info>>)]
                /\ UNCHANGED expected
           ELSE /\ results' = CompareEntry(results, path, Lookup(expected, path),
                                           info, flags)
                /\ expected' = ConsumeExpected(expected, path)
    /\ UNCHANGED <<expected_in, got, flags, cmp_pc>>

\* step 3: the got reader is exhausted; what is left of expected is reported
CompareEnd ==
    /\ cmp_pc = "scan"
    /\ got_pos = Len(got)
    /\ results' = [results EXCEPT !.only_in_expected =
                      [i \in DOMAIN expected |-> <<expected[i].path, expected[i]>>]]
    /\ cmp_pc' = "done"
    /\ UNCHANGED <<expected_in, expected, got, got_pos, flags>>

(***************************************************************************)
(* Inputs of the comparison engine                                          *)
(***************************************************************************)
MaxGot == 2         \* entries the got reader yields at most

PathXA == <<"x", "a">>
PathAB == <<"a", "b">>
PathBX == <<"b", "x">>

RegularFile(path, size, perm, uid, gid) ==
    FileInfo(path, size, S_IFREG + perm, uid, gid, FALSE, FALSE, None)
Directory(path, perm, uid, gid) ==
    FileInfo(path, 0, S_IFDIR + perm, uid, gid, TRUE, FALSE, None)
Symlink(path, target, perm, uid, gid) ==
    FileInfo(path, 0, S_IFLNK + perm, uid, gid, FALSE, TRUE, target)

\* the reference tree: a file, a symlink and a directory
ReferenceTree ==
    << RegularFile(PathXA, 10, 420, 0, 0),
       Symlink(PathAB, "t1", 511, 0, 0),
       Directory(PathBX, 493, 0, 0) >>

ExpectedTrees ==
    {SelectSeq(ReferenceTree, LAMBDA e : e.path \in S) :
        S \in SUBSET {PathXA, PathAB, PathBX}}

\* what the got side may hold at each path: the reference entry, and entries
\* that differ from it in one respect or in several at once
GotEntries ==
    { RegularFile(PathXA, 10, 420, 0, 0),      \* same
      RegularFile(PathXA, 30, 493, 0, 0),      \* mode and size
      RegularFile(PathXA, 30, 420, 0, 0),      \* size
      RegularFile(PathXA, 10, 420, 1, 0),      \* uid
      Symlink(PathXA, "t1", 511, 0, 0),        \* became a symlink
      Symlink(PathAB, "t1", 511, 0, 0),        \* same
      Symlink(PathAB, "t2", 493, 0, 0),        \* target and mode
      Symlink(PathAB, "t2", 511, 0, 0),        \* target
      RegularFile(PathAB, 10, 420, 0, 0),      \* no longer a symlink
      Directory(PathBX, 493, 0, 0),            \* same
      Directory(PathBX, 493, 0, 1),            \* gid
      RegularFile(PathBX, 10, 420, 0, 0) }     \* became a file

\* a reader yields pairwise-distinct paths
GotStreams ==
    {s \in SeqsUpTo(GotEntries, MaxGot) :
        \A i, j \in DOMAIN s : i # j => s[i].path # s[j].path}

FilterConfigs ==
    { <<<<>>, <<>>>>,
      <<<<Pattern(<<"a">>, FALSE)>>, <<>>>>,
      <<<<Pattern(<<"x">>, TRUE)>>, <<>>>>,
      <<<<>>, <<Pattern(<<"b">>, FALSE)>>>>,
      <<<<Pattern(<<"x", "a">>, FALSE), Pattern(<<"x">>, TRUE)>>,
        <<Pattern(<<"b">>, FALSE)>>>> }

Flags(abs, pct, show, min, include, exclude, uid_gid) ==
    [max_allowed_absolute_increase |-> abs,
     max_allowed_percent_increase |-> pct,
     show_decreases |-> show,
     minimum_compare_size |-> min,
     include_patterns |-> include,
     exclude_patterns |-> exclude,
     compare_uid_gid |-> uid_gid]

CompareFlags ==
    {Flags(0, 100, TRUE, 0, fc[1], fc[2], ug) :
        fc \in FilterConfigs, ug \in BOOLEAN}
    \cup {Flags(0, 300, TRUE, 0, <<>>, <<>>, TRUE)}

CompareIdle ==
    /\ expected_in = <<>> /\ expected = <<>> /\ got = <<>> /\ got_pos = 0
    /\ flags = Flags(0, 100, TRUE, 0, <<>>, <<>>, TRUE)
    /\ results = EmptyResults /\ cmp_pc = "idle"

CompareInit ==
    /\ expected_in \in ExpectedTrees
    /\ expected = expected_in
    /\ got \in GotStreams
    /\ got_pos = 0
    /\ flags \in CompareFlags
    /\ results = EmptyResults
    /\ cmp_pc = "start"

(***************************************************************************)
(* Inputs of check_size_threshold                                           *)
(***************************************************************************)
MaxSize == 6        \* sizes range over 0..MaxSize
MaxAbs == 3         \* max_allowed_absolute_increase ranges over 0..MaxAbs

PercentValues == {0, 50, 100, 200}
MinimumSizes == {0, 4}

ThresholdFlags ==
    {Flags(abs, pct, show, min, <<>>, <<>>, TRUE) :
        abs \in 0..MaxAbs, pct \in PercentValues, show \in BOOLEAN,
        min \in MinimumSizes}

ThresholdIdle ==
    /\ thr_old = 0 /\ thr_new = 0
    /\ thr_flags = Flags(0, 100, TRUE, 0, <<>>, <<>>, TRUE)
    /\ thr_result = Pass /\ thr_pc = "idle"

ThresholdInit ==
    /\ thr_old \in 0..MaxSize
    /\ thr_new \in 0..MaxSize
    /\ thr_flags \in ThresholdFlags
    /\ thr_result = Pass
    /\ thr_pc = "call"

ThresholdCheck ==
    /\ thr_pc = "call"
    /\ thr_result' = check_size_threshold(thr_old, thr_new, thr_flags)
    /\ thr_pc' = "done"
    /\ UNCHANGED <<thr_old, thr_new, thr_flags>>

(***************************************************************************)
(* Bytes and strings.  A bytes object is a sequence of 0..255; a str is a   *)
(* sequence of code points.                                                 *)
(***************************************************************************)
Zeros(n) == [i \in 1..n |-> 0]

\* str.encode("utf-8"), for code points below 0x10000
EncodeChar(c) ==
    IF c < 128 THEN <<c>>
    ELSE IF c < 2048 THEN <<192 + (c \div 64), 128 + (c % 64)>>
    ELSE <<224 + (c \div 4096), 128 + ((c \div 64) % 64), 128 + (c % 64)>>

\* the concatenation of seqs[lo..hi]
RECURSIVE ConcatRange(_, _, _)
ConcatRange(seqs, lo, hi) ==
    IF lo > hi THEN <<>>
    ELSE IF lo = hi THEN seqs[lo]
    ELSE LET mid == (lo + hi) \div 2
         IN  ConcatRange(seqs, lo, mid) \o ConcatRange(seqs, mid + 1, hi)

Concat(seqs) == ConcatRange(seqs, 1, Len(seqs))

Utf8Encode(str) == Concat([i \in DOMAIN str |-> EncodeChar(str[i])])

IsContinuation(b) == b >= 128 /\ b < 192

\* bytes.decode("utf-8"): the code points, or <<-1>> for bytes that are no
\* UTF-8 (UnicodeDecodeError)
RECURSIVE Utf8Decode(_)
Utf8Decode(b) ==
    IF b = <<>> THEN <<>>
    ELSE LET need == IF b[1] < 128 THEN 1
                     ELSE IF b[1] >= 192 /\ b[1] < 224 THEN 2
                     ELSE IF b[1] >= 224 /\ b[1] < 240 THEN 3
                     ELSE 0
         IN  IF need = 0 \/ Len(b) < need
                \/ \E k \in 2..need : ~IsContinuation(b[k])
             THEN <<-1>>
             ELSE LET c == IF need = 1 THEN b[1]
                           ELSE IF need = 2 THEN (b[1] - 192) * 64 + (b[2] - 128)
                           ELSE (b[1] - 224) * 4096 + (b[2] - 128) * 64
                                    + (b[3] - 128)
                      rest == Utf8Decode(SubSeq(b, need + 1, Len(b)))
                  IN  IF rest = <<-1>> THEN <<-1>> ELSE <<c>> \o rest

(***************************************************************************)
(* Python integers are unbounded.  uid and gid, which the tools only copy   *)
(* and compare, are kept as a pair of base-65536 digits (value              *)
(* hi * 65536 + lo), so that a value that needs more than 32 bits can be    *)
(* passed to the writer; every other integer of the model is below 2^31.    *)
(***************************************************************************)
PyInt(n) == [hi |-> n \div 65536, lo |-> n % 65536]

\* "0".."9" and "A".."F"
HexChar(d) == IF d < 10 THEN 48 + d ELSE 55 + d

RECURSIVE HexDigits(_)
HexDigits(n) ==
    IF n < 16 THEN <<HexChar(n)>>
    ELSE Append(HexDigits(n \div 16), HexChar(n % 16))

ZeroPad(digits, width) ==
    IF Len(digits) >= width THEN digits
    ELSE [i \in 1..(width - Len(digits)) |-> 48] \o digits

\* f"{n:08X}": upper-case hexadecimal, zero-padded to at least 8 digits
\* and longer when the value needs more
Format08X(n) ==
    LET d == IF n.hi = 0 THEN HexDigits(n.lo)
             ELSE HexDigits(n.hi) \o ZeroPad(HexDigits(n.lo), 4)
    IN  ZeroPad(d, 8)

(***************************************************************************)
(* CpioWriter (tools/lib/cpio_writer.py).  A writer is the pair of its      *)
(* stream and its inode counter.                                            *)
(***************************************************************************)
CpioMagic == <<48, 55, 48, 55, 48, 49>>                     \* "070701"
Trailer == <<84, 82, 65, 73, 76, 69, 82, 33, 33, 33>>       \* "TRAILER!!!"

Writer(stream, inode) == [stream |-> stream, inode |-> inode]

\* CpioWriter.__init__ on an empty stream
NewWriter == Writer(<<>>, 1)

pad_to_4(size) == (4 - (size % 4)) % 4

\* mode & 0o170000
TypeBits(mode) == ((mode \div 4096) % 16) * 4096

\* the regular-file bits whatever the kind of the call
EnsureType_AlwaysRegular(mode, type) ==
    IF TypeBits(mode) = 0 THEN mode + S_IFREG ELSE mode

\* if not (mode & 0o170000): mode |= type
EnsureType(mode, type) == IF TypeBits(mode) = 0 THEN mode + type ELSE mode

write_header(w, path, mode, uid, gid, nlink, mtime, filesize) ==
    LET path_bytes == Utf8Encode(path) \o <<0>>
        namesize == Len(path_bytes)
        header == CpioMagic
                    \o Format08X(PyInt(w.inode)) \o Format08X(PyInt(mode))
                    \o Format08X(uid) \o Format08X(gid)
                    \o Format08X(PyInt(nlink)) \o Format08X(PyInt(mtime))
                    \o Format08X(PyInt(filesize))
                    \o Format08X(PyInt(0)) \o Format08X(PyInt(0))
                    \o Format08X(PyInt(0)) \o Format08X(PyInt(0))
                    \o Format08X(PyInt(namesize)) \o Format08X(PyInt(0))
        header_plus_name == 110 + namesize
        padding == pad_to_4(header_plus_name)
    IN  Writer(w.stream \o header \o path_bytes \o Zeros(padding), w.inode + 1)

\* a content argument is bytes or str; a str is encoded first
Bytes(data) == [is_str |-> FALSE, data |-> data]
Str(data) == [is_str |-> TRUE, data |-> data]
ContentBytes(content) ==
    IF content.is_str THEN Utf8Encode(content.data) ELSE content.data

add_file(w, path, content, mode, uid, gid, mtime) ==
    LET data == ContentBytes(content)
        filesize == Len(data)
        h == write_header(w, path, EnsureType(mode, S_IFREG), uid, gid, 1,
                          mtime, filesize)
    IN  Writer(h.stream \o data \o Zeros(pad_to_4(filesize)), h.inode)

add_directory(w, path, mode, uid, gid, mtime) ==
    write_header(w, path, EnsureType(mode, S_IFDIR), uid, gid, 2, mtime, 0)

add_symlink(w, path, target, mode, uid, gid, mtime) ==
    LET target_bytes == Utf8Encode(target)
        h == write_header(w, path, EnsureType(mode, S_IFLNK), uid, gid, 1,
                          mtime, Len(target_bytes))
    IN  Writer(h.stream \o target_bytes \o Zeros(pad_to_4(Len(target_bytes))),
               h.inode)

finish(w) == write_header(w, Trailer, 0, PyInt(0), PyInt(0), 1, 0, 0)

(***************************************************************************)
(* The newc reader: 110-byte ASCII-hex header, name of namesize bytes       *)
(* padded to 4 from the start of the entry, content of filesize bytes       *)
(* padded to 4, end of archive at the entry named TRAILER!!!.               *)
(***************************************************************************)
HexValue(c) ==
    IF c >= 48 /\ c <= 57 THEN c - 48
    ELSE IF c >= 65 /\ c <= 70 THEN c - 55
    ELSE IF c >= 97 /\ c <= 102 THEN c - 87
    ELSE -1

IsHex(d) == \A i \in DOMAIN d : HexValue(d[i]) >= 0

Hex4(d) ==
    ((HexValue(d[1]) * 16 + HexValue(d[2])) * 16 + HexValue(d[3])) * 16
        + HexValue(d[4])

\* the value of 8 hexadecimal digits
ParseHex8(d) == [hi |-> Hex4(SubSeq(d, 1, 4)), lo |-> Hex4(SubSeq(d, 5, 8))]

\* a length field that does not exceed limit, as an integer of the model
Within(n, limit) == n.hi < 32768 /\ n.hi * 65536 + n.lo <= limit
ToInt(n) == n.hi * 65536 + n.lo

\* the k-th 8-digit field of a header, k in 1..13
Field(header, k) == SubSeq(header, 8 * k - 1, 8 * k + 6)

RECURSIVE StripNul(_)
StripNul(b) ==
    IF b # <<>> /\ b[Len(b)] = 0 THEN StripNul(SubSeq(b, 1, Len(b) - 1))
    ELSE b

ReadResult(entries, status) == [entries |-> entries, status |-> status]

\* the entries of stream from byte offset pos on, appended to acc
RECURSIVE ReadEntries(_, _, _)
ReadEntries(stream, pos, acc) ==
    IF Len(stream) = pos THEN ReadResult(acc, "eof")
    ELSE IF Len(stream) - pos < 110 THEN ReadResult(acc, "Truncated")
    ELSE
    LET header == SubSeq(stream, pos + 1, pos + 110)
    IN
    IF SubSeq(header, 1, 6) # CpioMagic THEN ReadResult(acc, "BadMagic")
    ELSE IF ~IsHex(SubSeq(header, 7, 110)) THEN ReadResult(acc, "BadHeader")
    ELSE
    LET mode == ParseHex8(Field(header, 2))
        uid == ParseHex8(Field(header, 3))
        gid == ParseHex8(Field(header, 4))
        filesize == ParseHex8(Field(header, 7))
        namesize == ParseHex8(Field(header, 12))
    IN
    IF ~Within(namesize, Len(stream) - pos - 110)
    THEN ReadResult(acc, "Truncated")
    ELSE
    LET name_end == pos + 110 + ToInt(namesize)
        name == StripNul(SubSeq(stream, pos + 111, name_end))
        path == Utf8Decode(name)
        data_start == name_end + pad_to_4(110 + ToInt(namesize))
    IN
    IF name = Trailer THEN ReadResult(acc, "trailer")
    ELSE IF path = <<-1>> THEN ReadResult(acc, "Decoding")
    ELSE IF data_start > Len(stream)
            \/ ~Within(filesize, Len(stream) - data_start)
    THEN ReadResult(acc, "Truncated")
    ELSE
    LET data_end == data_start + ToInt(filesize)
        content == SubSeq(stream, data_start + 1, data_end)
        is_dir == TypeBits(mode.lo) = S_IFDIR
        is_symlink == TypeBits(mode.lo) = S_IFLNK
        target == Utf8Decode(content)
        info == FileInfo(path,
                         IF is_dir \/ is_symlink THEN 0 ELSE ToInt(filesize),
                         mode, uid, gid, is_dir, is_symlink,
                         IF is_symlink THEN target ELSE None)
        next == data_end + pad_to_4(ToInt(filesize))
    IN
    IF is_symlink /\ target = <<-1>> THEN ReadResult(acc, "Decoding")
    ELSE ReadEntries(stream, IF next > Len(stream) THEN Len(stream) ELSE next,
                     Append(acc, info))

CpioReader(stream) == ReadEntries(stream, 0, <<>>)

(***************************************************************************)
(* Calls on a CpioWriter                                                    *)
(***************************************************************************)
MaxCalls == 3

Call(op, path, content, target, mode, uid, gid, mtime) ==
    [op |-> op, path |-> path, content |-> content, target |-> target,
     mode |-> mode, uid |-> uid, gid |-> gid, mtime |-> mtime]

NoContent == Bytes(<<>>)
FinishCall == Call("finish", <<>>, NoContent, <<>>, 0, PyInt(0), PyInt(0), 0)

\* a value that needs 33 bits
TwoTo32 == [hi |-> 65536, lo |-> 0]

\* add_file calls: paths "a", "bc", "d/e", "TRAILER!!!" and "h"; bytes and
\* str contents of 0 to 3 bytes; modes with the regular-file bits
\* (0o100644, 0o100755), without type bits (0o644) and with the directory
\* bits (0o040755); a uid that needs more than 32 bits
AddFileCalls ==
    { Call("add_file", <<97>>, Bytes(<<>>), <<>>, 33188, PyInt(0), PyInt(0), 0),
      Call("add_file", <<98, 99>>, Str(<<233>>), <<>>, 420, PyInt(1), PyInt(2), 0),
      Call("add_file", <<100, 47, 101>>, Bytes(<<1, 0, 255>>), <<>>, 33261,
           PyInt(0), PyInt(0), 7),
      Call("add_file", Trailer, Bytes(<<120>>), <<>>, 33188, PyInt(0), PyInt(0), 0),
      Call("add_file", <<97>>, Bytes(<<120>>), <<>>, 16877, PyInt(0), PyInt(0), 0),
      Call("add_file", <<104>>, Bytes(<<120>>), <<>>, 33188, TwoTo32, PyInt(0), 0) }

\* add_directory calls: paths "d" and "d/ef"; modes 0o040755 and 0o755
AddDirectoryCalls ==
    { Call("add_directory", <<100>>, NoContent, <<>>, 16877, PyInt(0), PyInt(0), 0),
      Call("add_directory", <<100, 47, 101, 102>>, NoContent, <<>>, 493,
           PyInt(1), PyInt(1), 0) }

\* add_symlink calls: paths "l" and "é"; targets "a" and "d/e"; modes
\* 0o120777 and 0o777
AddSymlinkCalls ==
    { Call("add_symlink", <<108>>, NoContent, <<97>>, 41471, PyInt(0), PyInt(0), 0),
      Call("add_symlink", <<233>>, NoContent, <<100, 47, 101>>, 511,
           PyInt(0), PyInt(65534), 0) }

CpioIdle ==
    /\ cpio_stream = <<>>
    /\ cpio_inode = 0
    /\ cpio_calls = <<>>
    /\ cpio_read = ReadResult(<<>>, "idle")

CpioInit ==
    /\ cpio_stream = NewWriter.stream
    /\ cpio_inode = NewWriter.inode
    /\ cpio_calls = <<>>
    /\ cpio_read = ReadResult(<<>>, "unread")

CpioCanCall == cpio_read.status = "unread" /\ Len(cpio_calls) < MaxCalls

CpioCalled(c, w) ==
    /\ cpio_stream' = w.stream
    /\ cpio_inode' = w.inode
    /\ cpio_calls' = Append(cpio_calls, c)
    /\ UNCHANGED cpio_read

CpioAddFile ==
    /\ CpioCanCall
    /\ \E c \in AddFileCalls :
         CpioCalled(c, add_file(Writer(cpio_stream, cpio_inode), c.path,
                                c.content, c.mode, c.uid, c.gid, c.mtime))

CpioAddDirectory ==
    /\ CpioCanCall
    /\ \E c \in AddDirectoryCalls :
         CpioCalled(c, add_directory(Writer(cpio_stream, cpio_inode), c.path,
                                     c.mode, c.uid, c.gid, c.mtime))

CpioAddSymlink ==
    /\ CpioCanCall
    /\ \E c \in AddSymlinkCalls :
         CpioCalled(c, add_symlink(Writer(cpio_stream, cpio_inode), c.path,
                                   c.target, c.mode, c.uid, c.gid, c.mtime))

CpioFinish ==
    /\ CpioCanCall
    /\ CpioCalled(FinishCall, finish(Writer(cpio_stream, cpio_inode)))

\* a reader enumerates the stream the writer has produced
CpioReadBack ==
    /\ cpio_read.status = "unread"
    /\ cpio_calls # <<>>
    /\ cpio_read' = CpioReader(cpio_stream)
    /\ UNCHANGED <<cpio_stream, cpio_inode, cpio_calls>>

(***************************************************************************)
(* RpmHeaderBuilder (contrib/tools/lib/rpm_writer.py)                       *)
(***************************************************************************)
RPM_MAGIC == <<237, 171, 238, 219>>
RPM_MAJOR == 3
RPM_MINOR == 0
RPM_TYPE_BINARY == 0
RPM_HEADER_MAGIC == <<142, 173, 232>>
RPM_HEADER_VERSION == 1

HEADER_INT16 == 3
HEADER_INT32 == 4
HEADER_INT64 == 5
HEADER_STRING == 6
HEADER_BIN == 7
HEADER_STRING_ARRAY == 8
HEADER_I18NSTRING == 9

SIGTAG_SIZE == 1000
SIGTAG_MD5 == 1004
SIGTAG_PAYLOADSIZE == 1007

RPMTAG_NAME == 1000
RPMTAG_VERSION == 1001
RPMTAG_RELEASE == 1002
RPMTAG_SUMMARY == 1004
RPMTAG_DESCRIPTION == 1005
RPMTAG_BUILDTIME == 1006
RPMTAG_BUILDHOST == 1007
RPMTAG_SIZE == 1009
RPMTAG_LICENSE == 1014
RPMTAG_GROUP == 1016
RPMTAG_OS == 1021
RPMTAG_ARCH == 1022
RPMTAG_FILESIZES == 1028
RPMTAG_FILEMODES == 1030
RPMTAG_FILERDEVS == 1033
RPMTAG_FILEMTIMES == 1034
RPMTAG_FILEMD5S == 1035
RPMTAG_FILELINKTOS == 1036
RPMTAG_FILEFLAGS == 1037
RPMTAG_FILEUSERNAME == 1039
RPMTAG_FILEGROUPNAME == 1040
RPMTAG_SOURCERPM == 1044
RPMTAG_FILEVERIFYFLAGS == 1045
RPMTAG_RPMVERSION == 1064
RPMTAG_FILEDEVICES == 1095
RPMTAG_FILEINODES == 1096
RPMTAG_FILELANGS == 1097
RPMTAG_DIRINDEXES == 1116
RPMTAG_BASENAMES == 1117
RPMTAG_DIRNAMES == 1118
RPMTAG_PAYLOADFORMAT == 1124
RPMTAG_PAYLOADCOMPRESSOR == 1125
RPMTAG_PAYLOADFLAGS == 1126

\* struct.pack(">B", v), struct.pack(">H", v) for v below 2^16 and
\* struct.pack(">I", n) for n below 2^32
Pack8(v) == <<v>>
Pack16(v) == <<v \div 256, v % 256>>
Pack32(n) == Pack16(n.hi) \o Pack16(n.lo)

Entry(tag, type, data) == [tag |-> tag, type |-> type, data |-> data]

\* the entry each add_* method appends to self.entries; an int argument
\* stands for the list of that one value
add_int32(tag, values) == Entry(tag, HEADER_INT32, values)
add_int16(tag, values) == Entry(tag, HEADER_INT16, values)
add_string(tag, value) == Entry(tag, HEADER_STRING, value)
add_string_array(tag, values) == Entry(tag, HEADER_STRING_ARRAY, values)
add_bin(tag, data) == Entry(tag, HEADER_BIN, data)
add_i18n_string(tag, value) == Entry(tag, HEADER_I18NSTRING, value)

\* list.sort(key=tag): ascending and stable.  SortedPosition is the place
\* entry i takes
SortedPosition(entries, i) ==
    1 + Cardinality({j \in DOMAIN entries :
                        \/ entries[j].tag < entries[i].tag
                        \/ entries[j].tag = entries[i].tag /\ j < i})

SortByTag(entries) ==
    [p \in DOMAIN entries |->
        entries[CHOOSE i \in DOMAIN entries : SortedPosition(entries, i) = p]]

\* the position data_store.tell() reaches by
\* while data_store.tell() % k: data_store.write(b'\x00')
AlignUp(pos, k) == pos + ((k - (pos % k)) % k)

\* a builder that pads before no value
Alignment_None(type) == 1

Alignment(type) ==
    IF type = HEADER_INT16 THEN 2
    ELSE IF type \in {HEADER_INT32, HEADER_INT64} THEN 4
    ELSE 1

EntryCount(e) ==
    IF e.type \in {HEADER_STRING, HEADER_I18NSTRING} THEN 1 ELSE Len(e.data)

\* the bytes written to the data store for the value of an entry
EntryBytes(e) ==
    IF e.type = HEADER_INT16
    THEN Concat([i \in DOMAIN e.data |-> Pack16(e.data[i])])
    ELSE IF e.type = HEADER_INT32
    THEN Concat([i \in DOMAIN e.data |-> Pack32(e.data[i])])
    ELSE IF e.type = HEADER_STRING_ARRAY
    THEN Concat([i \in DOMAIN e.data |-> Utf8Encode(e.data[i]) \o <<0>>])
    ELSE IF e.type = HEADER_BIN
    THEN e.data
    ELSE Utf8Encode(e.data) \o <<0>>

\* what the loop of build() writes for entries[lo..hi] when it begins
\* with data_store.tell() = start: the bytes, and the offset of each entry
RECURSIVE StoreRange(_, _, _, _)
StoreRange(entries, lo, hi, start) ==
    IF lo > hi THEN [bytes |-> <<>>, offsets |-> <<>>]
    ELSE IF lo = hi
    THEN LET offset == AlignUp(start, Alignment(entries[lo].type))
         IN  [bytes |-> Zeros(offset - start) \o EntryBytes(entries[lo]),
              offsets |-> <<offset>>]
    ELSE LET mid == (lo + hi) \div 2
             left == StoreRange(entries, lo, mid, start)
         IN  IF left.offsets = <<>> THEN left
             ELSE LET right == StoreRange(entries, mid + 1, hi,
                                          start + Len(left.bytes))
                  IN  [bytes |-> left.bytes \o right.bytes,
                       offsets |-> left.offsets \o right.offsets]

IndexEntry(tag, type, offset, count) ==
    [tag |-> tag, type |-> type, offset |-> offset, count |-> count]

\* data_store and index_entries after the loop of build() over the sorted
\* entries
BuildStore(entries) ==
    LET written == StoreRange(entries, 1, Len(entries), 0)
    IN  [data_store |-> written.bytes,
         index_entries |->
            [i \in DOMAIN entries |->
                IndexEntry(entries[i].tag, entries[i].type,
                           written.offsets[i], EntryCount(entries[i]))]]

build(entries) ==
    LET b == BuildStore(SortByTag(entries))
    IN  RPM_HEADER_MAGIC \o Pack8(RPM_HEADER_VERSION) \o Zeros(4)
            \o Pack32(PyInt(Len(b.index_entries)))
            \o Pack32(PyInt(Len(b.data_store)))
            \o Concat([i \in DOMAIN b.index_entries |->
                          Pack32(PyInt(b.index_entries[i].tag))
                              \o Pack32(PyInt(b.index_entries[i].type))
                              \o Pack32(PyInt(b.index_entries[i].offset))
                              \o Pack32(PyInt(b.index_entries[i].count))])
            \o b.data_store

(***************************************************************************)
(* RpmWriter (contrib/tools/lib/rpm_writer.py)                              *)
(***************************************************************************)
Slash == <<47>>   \* "/"
Dash == <<45>>   \* "-"
Root == <<114, 111, 111, 116>>   \* "root"
Localhost == <<108, 111, 99, 97, 108, 104, 111, 115, 116>>   \* "localhost"
Unknown == <<85, 110, 107, 110, 111, 119, 110>>   \* "Unknown"
\* "Unspecified"
Unspecified ==
    <<85, 110, 115, 112, 101, 99, 105, 102, 105, 101, 100>>
Linux == <<108, 105, 110, 117, 120>>   \* "linux"
Noarch == <<110, 111, 97, 114, 99, 104>>   \* "noarch"
X86_64 == <<120, 56, 54, 95, 54, 52>>   \* "x86_64"
I386 == <<105, 51, 56, 54>>   \* "i386"
I686 == <<105, 54, 56, 54>>   \* "i686"
SrcRpm == <<46, 115, 114, 99, 46, 114, 112, 109>>   \* ".src.rpm"
RpmVersion == <<52, 46, 48>>   \* "4.0"
Cpio == <<99, 112, 105, 111>>   \* "cpio"
Gzip == <<103, 122, 105, 112>>   \* "gzip"
Xz == <<120, 122>>   \* "xz"
Bzip2 == <<98, 122, 105, 112, 50>>   \* "bzip2"
NoCompression == <<110, 111, 110, 101>>   \* "none"
Zstd == <<122, 115, 116, 100>>   \* "zstd"
Nine == <<57>>   \* "9"

\* the state of an RpmWriter: RpmWriter.__init__
RpmWriter(name, version, release, arch, os_name, summary, description, license_text, group, compression) ==
    [name |-> name, version |-> version, release |-> release, arch |-> arch,
     os_name |-> os_name,
     summary |-> IF summary = <<>> THEN name ELSE summary,
     description |-> IF description # <<>> THEN description
                     ELSE IF summary = <<>> THEN name ELSE summary,
     license |-> license_text, group |-> group, compression |-> compression,
     files |-> <<>>]

FileEntry(path, content, mode, uid, gid, user, group, is_dir, is_symlink, target) ==
    [path |-> path, content |-> content, mode |-> mode, uid |-> uid,
     gid |-> gid, user |-> user, group |-> group, is_dir |-> is_dir,
     is_symlink |-> is_symlink, target |-> target]

rpm_add_file(w, path, content, mode, uid, gid, user, group) ==
    [w EXCEPT !.files = Append(@,
        FileEntry(path, ContentBytes(content), EnsureType(mode, S_IFREG),
                  uid, gid, user, group, FALSE, FALSE, None))]

rpm_add_directory(w, path, mode, uid, gid, user, group) ==
    [w EXCEPT !.files = Append(@,
        FileEntry(path, <<>>, EnsureType(mode, S_IFDIR), uid, gid, user,
                  group, TRUE, FALSE, None))]

rpm_add_symlink(w, path, target, mode, uid, gid, user, group) ==
    [w EXCEPT !.files = Append(@,
        FileEntry(path, <<>>, EnsureType(mode, S_IFLNK), uid, gid, user,
                  group, FALSE, TRUE, target))]

\* arch_num of the lead
ArchNum(arch) == IF arch \in {X86_64, I386, I686} THEN 1 ELSE 0

\* bytes[:n]
Truncate(b, n) == IF Len(b) > n THEN SubSeq(b, 1, n) ELSE b

\* f"{name}-{version}-{release}"
NameVersionRelease(w) == w.name \o Dash \o w.version \o Dash \o w.release

\* build_lead with the name written in full, whatever its length
build_lead_NoTruncate(w) ==
    LET name_bytes == Utf8Encode(NameVersionRelease(w))
    IN  RPM_MAGIC \o Pack8(RPM_MAJOR) \o Pack8(RPM_MINOR)
            \o Pack16(RPM_TYPE_BINARY) \o Pack16(ArchNum(w.arch))
            \o name_bytes \o Zeros(66 - Len(name_bytes))
            \o Pack16(1) \o Pack16(5) \o Zeros(16)

build_lead(w) ==
    LET name_bytes == Truncate(Utf8Encode(NameVersionRelease(w)), 65)
    IN  RPM_MAGIC \o Pack8(RPM_MAJOR) \o Pack8(RPM_MINOR)
            \o Pack16(RPM_TYPE_BINARY) \o Pack16(ArchNum(w.arch))
            \o name_bytes \o Zeros(66 - Len(name_bytes))
            \o Pack16(1) \o Pack16(5) \o Zeros(16)

(***************************************************************************)
(* hashlib.md5 is not computed: the digest is 16 bytes that depend on the   *)
(* length and the byte sum of the data, enough to tell apart the data of    *)
(* the model.                                                               *)
(***************************************************************************)
\* the sum of b[lo..hi], modulo 65536
RECURSIVE SumRange(_, _, _)
SumRange(b, lo, hi) ==
    IF lo > hi THEN 0
    ELSE IF lo = hi THEN b[lo]
    ELSE LET mid == (lo + hi) \div 2
         IN  (SumRange(b, lo, mid) + SumRange(b, mid + 1, hi)) % 65536

ByteSum(b) == SumRange(b, 1, Len(b))

md5_digest(data) ==
    LET s == ByteSum(data)
    IN  [i \in 1..16 |-> (s + i * (Len(data) + 1)) % 256]

LowerHexChar(d) == IF d < 10 THEN 48 + d ELSE 87 + d

\* hexdigest(): two lower-case hexadecimal digits per byte, as a str
md5_hexdigest(data) ==
    LET d == md5_digest(data)
    IN  [i \in 1..32 |->
            IF i % 2 = 1 THEN LowerHexChar(d[(i + 1) \div 2] \div 16)
            ELSE LowerHexChar(d[i \div 2] % 16)]

build_signature(header_bytes, payload_bytes) ==
    LET combined == header_bytes \o payload_bytes
        sig == << add_int32(SIGTAG_SIZE, <<PyInt(Len(combined))>>),
                  add_bin(SIGTAG_MD5, md5_digest(combined)),
                  add_int32(SIGTAG_PAYLOADSIZE,
                            <<PyInt(Len(payload_bytes))>>) >>
        sig_bytes == build(sig)
        padding == (8 - (Len(sig_bytes) % 8)) % 8
    IN  sig_bytes \o Zeros(padding)

\* str.lstrip('/')
RECURSIVE lstrip_slash(_)
lstrip_slash(path) ==
    IF path # <<>> /\ Head(path) = 47 THEN lstrip_slash(Tail(path)) ELSE path

RECURSIVE rstrip_slash(_)
rstrip_slash(path) ==
    IF path # <<>> /\ path[Len(path)] = 47
    THEN rstrip_slash(SubSeq(path, 1, Len(path) - 1))
    ELSE path

\* path.rfind('/') + 1
AfterLastSlash(path) ==
    IF \E i \in DOMAIN path : path[i] = 47
    THEN CHOOSE i \in DOMAIN path :
            path[i] = 47 /\ \A j \in DOMAIN path : path[j] = 47 => j <= i
    ELSE 0

\* os.path.dirname and os.path.basename
os_path_dirname(path) ==
    LET head == SubSeq(path, 1, AfterLastSlash(path))
    IN  IF head # <<>> /\ \E i \in DOMAIN head : head[i] # 47
        THEN rstrip_slash(head)
        ELSE head

os_path_basename(path) == SubSeq(path, AfterLastSlash(path) + 1, Len(path))

\* the dirname entry of a file: "/" + parent + "/", or "/"
Dirname(f) ==
    LET dirname == os_path_dirname(lstrip_slash(f.path))
    IN  IF dirname # <<>> THEN Slash \o dirname \o Slash ELSE Slash

\* dir_list: the dirnames in order of first occurrence
RECURSIVE DirList(_, _)
DirList(files, dir_list) ==
    IF files = <<>> THEN dir_list
    ELSE DirList(Tail(files),
                 IF \E k \in DOMAIN dir_list : dir_list[k] = Dirname(Head(files))
                 THEN dir_list
                 ELSE Append(dir_list, Dirname(Head(files))))

\* dirs[dirname]
DirIndex(dir_list, dirname) ==
    (CHOOSE k \in DOMAIN dir_list : dir_list[k] = dirname) - 1

RECURSIVE Sum(_)
Sum(values) == IF values = <<>> THEN 0 ELSE Head(values) + Sum(Tail(values))

\* verifyflags: 0xFFFFFFFF
VerifyAll == [hi |-> 65535, lo |-> 65535]

\* self.compression if self.compression != "none" else "gzip"
CompressorName(compression) ==
    IF compression # NoCompression THEN compression ELSE Gzip

\* the per-file entries of _build_header, in the order it adds them
FileTags(files, now) ==
    LET dir_list == DirList(files, <<>>)
        sizes == [i \in DOMAIN files |-> Len(files[i].content)]
    IN  << add_string_array(RPMTAG_DIRNAMES, dir_list),
           add_string_array(RPMTAG_BASENAMES,
               [i \in DOMAIN files |->
                   os_path_basename(lstrip_slash(files[i].path))]),
           add_int32(RPMTAG_DIRINDEXES,
               [i \in DOMAIN files |->
                   PyInt(DirIndex(dir_list, Dirname(files[i])))]),
           add_int32(RPMTAG_FILESIZES,
               [i \in DOMAIN files |-> PyInt(sizes[i])]),
           add_int16(RPMTAG_FILEMODES, [i \in DOMAIN files |-> files[i].mode]),
           add_int16(RPMTAG_FILERDEVS, [i \in DOMAIN files |-> 0]),
           add_int32(RPMTAG_FILEMTIMES, [i \in DOMAIN files |-> now]),
           add_string_array(RPMTAG_FILEMD5S,
               [i \in DOMAIN files |->
                   IF files[i].is_symlink \/ files[i].is_dir THEN <<>>
                   ELSE md5_hexdigest(files[i].content)]),
           add_string_array(RPMTAG_FILELINKTOS,
               [i \in DOMAIN files |->
                   IF files[i].is_symlink THEN files[i].target ELSE <<>>]),
           add_int32(RPMTAG_FILEFLAGS, [i \in DOMAIN files |-> PyInt(0)]),
           add_string_array(RPMTAG_FILEUSERNAME,
               [i \in DOMAIN files |-> files[i].user]),
           add_string_array(RPMTAG_FILEGROUPNAME,
               [i \in DOMAIN files |-> files[i].group]),
           add_int32(RPMTAG_FILEDEVICES, [i \in DOMAIN files |-> PyInt(1)]),
           add_int32(RPMTAG_FILEINODES, [i \in DOMAIN files |-> PyInt(i)]),
           add_string_array(RPMTAG_FILELANGS, [i \in DOMAIN files |-> <<>>]),
           add_int32(RPMTAG_FILEVERIFYFLAGS,
               [i \in DOMAIN files |-> VerifyAll]),
           add_int32(RPMTAG_SIZE, <<PyInt(Sum(sizes))>>) >>

\* the entries _build_header adds, in order; now is int(time.time())
HeaderEntries(w, now) ==
    << add_string(RPMTAG_NAME, w.name),
       add_string(RPMTAG_VERSION, w.version),
       add_string(RPMTAG_RELEASE, w.release),
       add_i18n_string(RPMTAG_SUMMARY, w.summary),
       add_i18n_string(RPMTAG_DESCRIPTION, w.description),
       add_int32(RPMTAG_BUILDTIME, <<now>>),
       add_string(RPMTAG_BUILDHOST, Localhost),
       add_string(RPMTAG_LICENSE, w.license),
       add_i18n_string(RPMTAG_GROUP, w.group),
       add_string(RPMTAG_OS, w.os_name),
       add_string(RPMTAG_ARCH, w.arch),
       add_string(RPMTAG_SOURCERPM, NameVersionRelease(w) \o SrcRpm),
       add_string(RPMTAG_RPMVERSION, RpmVersion),
       add_string(RPMTAG_PAYLOADFORMAT, Cpio),
       add_string(RPMTAG_PAYLOADCOMPRESSOR, CompressorName(w.compression)),
       add_string(RPMTAG_PAYLOADFLAGS, Nine) >>
        \o (IF w.files # <<>> THEN FileTags(w.files, now) ELSE <<>>)

build_header(w, now) == build(HeaderEntries(w, now))

\* the loop of _build_cpio_payload
RECURSIVE AddFiles(_, _)
AddFiles(writer, files) ==
    IF files = <<>> THEN writer
    ELSE LET f == Head(files)
             path == lstrip_slash(f.path)
         IN  AddFiles(IF f.is_symlink
                      THEN add_symlink(writer, path, f.target, f.mode, f.uid,
                                       f.gid, 0)
                      ELSE IF f.is_dir
                      THEN add_directory(writer, path, f.mode, f.uid, f.gid, 0)
                      ELSE add_file(writer, path, Bytes(f.content), f.mode,
                                    f.uid, f.gid, 0),
                      Tail(files))

build_cpio_payload(w) == finish(AddFiles(NewWriter, w.files)).stream

(***************************************************************************)
(* The codecs are not computed.  A compressed stream is the magic number    *)
(* of its format followed by the data, stored; decompressing data that      *)
(* does not begin with the magic number of the codec fails.                 *)
(***************************************************************************)
GzipMagic == <<31, 139, 8>>
XzMagic == <<253, 55, 122, 88, 90, 0>>
Bzip2Magic == <<66, 90, 104>>

gzip_compress(data) == GzipMagic \o data
lzma_compress(data) == XzMagic \o data
bz2_compress(data) == Bzip2Magic \o data

\* what stands for a raised exception where bytes are expected
Raised == <<-1>>

compress_payload(w, data) ==
    IF w.compression = NoCompression THEN data
    ELSE IF w.compression = Gzip THEN gzip_compress(data)
    ELSE IF w.compression = Xz THEN lzma_compress(data)
    ELSE IF w.compression = Bzip2 THEN bz2_compress(data)
    ELSE Raised

\* write and write_to_stream: the bytes of the file, or Raised
write(w, now) ==
    LET cpio_data == build_cpio_payload(w)
        payload == compress_payload(w, cpio_data)
        header == build_header(w, now)
    IN  IF payload = Raised THEN Raised
        ELSE build_lead(w) \o build_signature(header, payload) \o header
                \o payload

(***************************************************************************)
(* The RPM reader: lead of 96 bytes, signature header, padding to 8 bytes,  *)
(* main header, then the payload, decoded by the codec that tag 1125 names  *)
(* and read as a cpio archive.                                              *)
(***************************************************************************)
Unpack16(b, pos) == b[pos + 1] * 256 + b[pos + 2]
Unpack32(b, pos) == [hi |-> Unpack16(b, pos), lo |-> Unpack16(b, pos + 2)]

HeaderSection(status, n_entries, index_start, store_start, end) ==
    [status |-> status, n_entries |-> n_entries, index_start |-> index_start,
     store_start |-> store_start, end |-> end]

\* the header section that begins at byte offset pos
ParseHeader(file, pos) ==
    IF Len(file) - pos < 16 THEN HeaderSection("Truncated", 0, 0, 0, 0)
    ELSE IF SubSeq(file, pos + 1, pos + 3) # RPM_HEADER_MAGIC
    THEN HeaderSection("BadMagic", 0, 0, 0, 0)
    ELSE
    LET n_entries == Unpack32(file, pos + 8)
        data_len == Unpack32(file, pos + 12)
    IN  IF ~Within(n_entries, (Len(file) - pos - 16) \div 16)
        THEN HeaderSection("Truncated", 0, 0, 0, 0)
        ELSE IF ~Within(data_len,
                        Len(file) - pos - 16 - 16 * ToInt(n_entries))
        THEN HeaderSection("Truncated", 0, 0, 0, 0)
        ELSE HeaderSection("ok", ToInt(n_entries), pos + 16,
                           pos + 16 + 16 * ToInt(n_entries),
                           pos + 16 + 16 * ToInt(n_entries) + ToInt(data_len))

\* the bytes from offset pos up to the next NUL
RECURSIVE ReadCString(_, _, _)
ReadCString(b, pos, limit) ==
    IF pos >= limit \/ b[pos + 1] = 0 THEN <<>>
    ELSE <<b[pos + 1]>> \o ReadCString(b, pos + 1, limit)

\* the index entries of section h that carry tag
TagEntries(file, h, tag) ==
    {k \in 0..(h.n_entries - 1) :
        Unpack32(file, h.index_start + 16 * k) = PyInt(tag)}

\* the value of a STRING tag of section h, Raised when the tag is absent
StringTag(file, h, tag) ==
    IF TagEntries(file, h, tag) = {} THEN Raised
    ELSE LET k == CHOOSE k \in TagEntries(file, h, tag) : TRUE
             offset == Unpack32(file, h.index_start + 16 * k + 8)
         IN  IF ~Within(offset, h.end - h.store_start) THEN Raised
             ELSE Utf8Decode(ReadCString(file, h.store_start + ToInt(offset),
                                         h.end))

IsPrefix(p, b) == Len(b) >= Len(p) /\ SubSeq(b, 1, Len(p)) = p

\* the decoder of a codec applied to data, Raised when it fails
Decompress(codec, data) ==
    LET magic == IF codec = Gzip THEN GzipMagic
                 ELSE IF codec = Xz THEN XzMagic
                 ELSE Bzip2Magic
    IN  IF codec = NoCompression THEN data
        ELSE IF IsPrefix(magic, data)
        THEN SubSeq(data, Len(magic) + 1, Len(data))
        ELSE Raised

RpmRead(status, compressor, cpio, entries) ==
    [status |-> status, compressor |-> compressor, cpio |-> cpio,
     entries |-> entries]

RpmFileReader(file) ==
    IF Len(file) < 96 THEN RpmRead("Truncated", <<>>, <<>>, <<>>)
    ELSE IF SubSeq(file, 1, 4) # RPM_MAGIC
    THEN RpmRead("BadMagic", <<>>, <<>>, <<>>)
    ELSE
    LET sig == ParseHeader(file, 96)
    IN
    IF sig.status # "ok" THEN RpmRead(sig.status, <<>>, <<>>, <<>>)
    ELSE
    LET hdr == ParseHeader(file, sig.end + ((8 - (sig.end % 8)) % 8))
    IN
    IF hdr.status # "ok" THEN RpmRead(hdr.status, <<>>, <<>>, <<>>)
    ELSE
    LET compressor == StringTag(file, hdr, RPMTAG_PAYLOADCOMPRESSOR)
        payload == SubSeq(file, hdr.end + 1, Len(file))
    IN
    IF compressor = Raised THEN RpmRead("MissingField", <<>>, <<>>, <<>>)
    ELSE IF compressor \notin {Gzip, Xz, Bzip2, NoCompression}
    THEN RpmRead("Unsupported", compressor, <<>>, <<>>)
    ELSE
    LET cpio == Decompress(compressor, payload)
    IN
    IF cpio = Raised THEN RpmRead("Decompression", compressor, <<>>, <<>>)
    ELSE LET read == CpioReader(cpio)
         IN  RpmRead(read.status, compressor, cpio, read.entries)

(***************************************************************************)
(* Calls on an RpmWriter                                                    *)
(***************************************************************************)
MaxFiles == 2

\* the compression settings the constructor is given; "zstd" is one that
\* _compress_payload rejects
Compressions == {Gzip, Xz, Bzip2, NoCompression, Zstd}

\* name "p", version "1", every other argument at its default
SmallPackage(compression) ==
    RpmWriter(<<112>>, <<49>>, <<49>>, Noarch, Linux, <<>>, <<>>, Unknown,
              Unspecified, compression)

\* a name of 61 characters, version "1.0", release "2", arch "x86_64",
\* summary "s", description "dé", license "MIT", group "g"
LongNamePackage(compression) ==
    RpmWriter([i \in 1..61 |-> 110], <<49, 46, 48>>, <<50>>, X86_64, Linux,
              <<115>>, <<100, 233>>, <<77, 73, 84>>, <<103>>, compression)

\* int(time.time()) at the time of the write
Times == {PyInt(1793577600)}

RpmCall(op, path, content, target, mode, uid, gid, user, group) ==
    [op |-> op, path |-> path, content |-> content, target |-> target,
     mode |-> mode, uid |-> uid, gid |-> gid, user |-> user, group |-> group]

\* add_file("/d/f", b"hi"), add_file("h", "é", mode=0o644, uid=1, gid=1,
\* user="u", group="g") and add_file("/d//k", b"x")
RpmAddFileCalls ==
    { RpmCall("add_file", <<47, 100, 47, 102>>, Bytes(<<104, 105>>), <<>>,
              33188, PyInt(0), PyInt(0), Root, Root),
      RpmCall("add_file", <<104>>, Str(<<233>>), <<>>, 420, PyInt(1),
              PyInt(1), <<117>>, <<103>>),
      RpmCall("add_file", <<47, 100, 47, 47, 107>>, Bytes(<<120>>), <<>>,
              33188, PyInt(0), PyInt(0), Root, Root) }

\* add_directory("/d"), add_directory("//e", mode=0o755) and
\* add_directory("/d/g", mode=0o100644)
RpmAddDirectoryCalls ==
    { RpmCall("add_directory", <<47, 100>>, NoContent, <<>>, 16877, PyInt(0),
              PyInt(0), Root, Root),
      RpmCall("add_directory", <<47, 47, 101>>, NoContent, <<>>, 493,
              PyInt(0), PyInt(0), Root, Root),
      RpmCall("add_directory", <<47, 100, 47, 103>>, NoContent, <<>>, 33188,
              PyInt(0), PyInt(0), Root, Root) }

\* add_symlink("/d/l", "f") and add_symlink("/l", "/d/f", mode=0o777)
RpmAddSymlinkCalls ==
    { RpmCall("add_symlink", <<47, 100, 47, 108>>, NoContent, <<102>>, 41471,
              PyInt(0), PyInt(0), Root, Root),
      RpmCall("add_symlink", <<47, 108>>, NoContent, <<47, 100, 47, 102>>,
              511, PyInt(0), PyInt(0), Root, Root) }

RpmIdle ==
    /\ rpm_writer = SmallPackage(Gzip)
    /\ rpm_calls = <<>>
    /\ rpm_file = <<>>
    /\ rpm_read = RpmRead("idle", <<>>, <<>>, <<>>)

RpmInit ==
    /\ rpm_writer \in {SmallPackage(c) : c \in Compressions}
                        \cup {LongNamePackage(c) : c \in Compressions}
    /\ rpm_calls = <<>>
    /\ rpm_file = <<>>
    /\ rpm_read = RpmRead("unread", <<>>, <<>>, <<>>)

RpmCanAdd == rpm_file = <<>> /\ Len(rpm_writer.files) < MaxFiles

RpmAdded(c, w) ==
    /\ rpm_writer' = w
    /\ rpm_calls' = Append(rpm_calls, c)
    /\ UNCHANGED <<rpm_file, rpm_read>>

RpmAddFile ==
    /\ RpmCanAdd
    /\ \E c \in RpmAddFileCalls :
         RpmAdded(c, rpm_add_file(rpm_writer, c.path, c.content, c.mode,
                                  c.uid, c.gid, c.user, c.group))

RpmAddDirectory ==
    /\ RpmCanAdd
    /\ \E c \in RpmAddDirectoryCalls :
         RpmAdded(c, rpm_add_directory(rpm_writer, c.path, c.mode, c.uid,
                                       c.gid, c.user, c.group))

RpmAddSymlink ==
    /\ RpmCanAdd
    /\ \E c \in RpmAddSymlinkCalls :
         RpmAdded(c, rpm_add_symlink(rpm_writer, c.path, c.target, c.mode,
                                     c.uid, c.gid, c.user, c.group))

\* write(): the file is written, or the call raises and nothing is
RpmWrite ==
    /\ rpm_file = <<>>
    /\ \E now \in Times : rpm_file' = write(rpm_writer, now)
    /\ UNCHANGED <<rpm_writer, rpm_calls, rpm_read>>

\* a reader enumerates the written file
RpmReadBack ==
    /\ rpm_file \notin {<<>>, Raised}
    /\ rpm_read.status = "unread"
    /\ rpm_read' = RpmFileReader(rpm_file)
    /\ UNCHANGED <<rpm_writer, rpm_calls, rpm_file>>

(***************************************************************************)
(* PkgReader (contrib/tools/lib/pkg_reader.py)                              *)
(*                                                                          *)
(* A XAR file is a record: the magic, the two header fields that locate     *)
(* the heap, the table of contents and the heap bytes.  The XML of the      *)
(* table of contents is not parsed: toc is the list of its <file> elements  *)
(* in document order, which is the order element.iter("file") visits them.  *)
(***************************************************************************)
XAR_MAGIC == <<120, 97, 114, 33>>   \* "xar!"
XAR_HEADER_SIZE == 28

\* "application/octet-stream"
EncOctetStream ==
    <<97, 112, 112, 108, 105, 99, 97, 116, 105, 111, 110, 47, 111, 99, 116,
      101, 116, 45, 115, 116, 114, 101, 97, 109>>
\* "application/x-gzip"
EncGzip ==
    <<97, 112, 112, 108, 105, 99, 97, 116, 105, 111, 110, 47, 120, 45, 103,
      122, 105, 112>>
\* "application/x-bzip2"
EncBzip2 ==
    <<97, 112, 112, 108, 105, 99, 97, 116, 105, 111, 110, 47, 120, 45, 98,
      122, 105, 112, 50>>
\* "application/x-lzma"
EncLzma ==
    <<97, 112, 112, 108, 105, 99, 97, 116, 105, 111, 110, 47, 120, 45, 108,
      122, 109, 97>>
WordOctetStream == <<111, 99, 116, 101, 116, 45, 115, 116, 114, 101, 97, 109>>   \* "octet-stream"
WordGzip == <<120, 45, 103, 122, 105, 112>>   \* "x-gzip"
WordBzip2 == <<120, 45, 98, 122, 105, 112, 50>>   \* "x-bzip2"
Payload == <<80, 97, 121, 108, 111, 97, 100>>   \* "Payload"
Bom == <<66, 111, 109>>   \* "Bom"

XarData(magic, header_size, toc_compressed_len, toc, heap) ==
    [magic |-> magic, header_size |-> header_size,
     toc_compressed_len |-> toc_compressed_len, toc |-> toc, heap |-> heap]

\* len(data): the header, the compressed table of contents and the heap
DataLen(data) == data.header_size + data.toc_compressed_len + Len(data.heap)

\* a <file> element: its <name>, whether it has a <data> child, the
\* <offset>, <length> and <size> of the data (0 when absent) and the style
\* of its <encoding> ("" when absent)
FileElement(name, has_data, offset, length, size, encoding) ==
    [name |-> name, has_data |-> has_data, offset |-> offset,
     length |-> length, size |-> size, encoding |-> encoding]

\* sub in s, for str
IsSubstring(sub, s) ==
    \E i \in 0..(Len(s) - Len(sub)) : SubSeq(s, i + 1, i + Len(sub)) = sub

\* gzip.decompress and bz2.decompress: the inverses of the stored codecs;
\* empty input gives empty output
gzip_decompress(data) ==
    IF data = <<>> THEN <<>>
    ELSE IF IsPrefix(GzipMagic, data)
    THEN SubSeq(data, Len(GzipMagic) + 1, Len(data))
    ELSE Raised

bz2_decompress(data) ==
    IF data = <<>> THEN <<>>
    ELSE IF IsPrefix(Bzip2Magic, data)
    THEN SubSeq(data, Len(Bzip2Magic) + 1, Len(data))
    ELSE Raised

\* what reading a gzip.GzipFile over data to its end returns: the
\* constructor reads nothing, the first read raises when data is no gzip
\* stream
GzipFile_read(data) == gzip_decompress(data)

XarHeader(status, header_size, toc_compressed_len) ==
    [status |-> status, header_size |-> header_size,
     toc_compressed_len |-> toc_compressed_len]

parse_xar_header(data) ==
    IF DataLen(data) < XAR_HEADER_SIZE THEN XarHeader("ValueError", 0, 0)
    ELSE IF data.magic # XAR_MAGIC THEN XarHeader("ValueError", 0, 0)
    ELSE XarHeader("ok", data.header_size, data.toc_compressed_len)

\* the <file> elements of the decompressed table of contents
parse_xar_toc(data, header) == data.toc

\* the Payload elements that have a <data> child
find_payloads(toc) ==
    SelectSeq(toc, LAMBDA e : e.name = Payload /\ e.has_data)

Extracted(status, bytes) == [status |-> status, bytes |-> bytes]

\* data[pay_start:pay_end] lies in the heap, which begins at heap_start
extract_payload(data, header, payload_info) ==
    LET heap_start == header.header_size + header.toc_compressed_len
        pay_start == heap_start + payload_info.offset
        pay_end == pay_start + payload_info.length
        raw == SubSeq(data.heap, payload_info.offset + 1,
                      payload_info.offset + payload_info.length)
        encoding == payload_info.encoding
        decoded == IF IsSubstring(WordOctetStream, encoding) THEN raw
                   ELSE IF IsSubstring(WordGzip, encoding)
                   THEN gzip_decompress(raw)
                   ELSE IF IsSubstring(WordBzip2, encoding)
                   THEN bz2_decompress(raw)
                   ELSE raw
    IN  IF pay_end > DataLen(data) THEN Extracted("ValueError", <<>>)
        ELSE IF decoded = Raised THEN Extracted("Decompression", <<>>)
        ELSE Extracted("ok", decoded)

\* the state of a load: how it ended, self.items, and the bytes the
\* CpioReader of each payload was given to read (Raised when reading them
\* raises)
Loaded(status, items, fed) ==
    [status |-> status, items |-> items, fed |-> fed]

read_cpio_from_payload(st, payload_bytes) ==
    LET fed == GzipFile_read(payload_bytes)
    IN  IF fed = Raised
        THEN Loaded("Decompression", st.items, Append(st.fed, Raised))
        ELSE LET read == CpioReader(fed)
             IN  Loaded(IF read.status \in {"eof", "trailer"} THEN "ok"
                        ELSE read.status,
                        st.items \o read.entries, Append(st.fed, fed))

\* the loop of _load from payload k on; it ends at the first exception
RECURSIVE LoadPayloads(_, _, _, _, _)
LoadPayloads(data, header, payloads, k, st) ==
    IF k > Len(payloads) THEN st
    ELSE LET extracted == extract_payload(data, header, payloads[k])
         IN  IF extracted.status # "ok"
             THEN Loaded(extracted.status, st.items, st.fed)
             ELSE LET read == read_cpio_from_payload(st, extracted.bytes)
                  IN  IF read.status # "ok" THEN read
                      ELSE LoadPayloads(data, header, payloads, k + 1, read)

load(data) ==
    LET header == parse_xar_header(data)
    IN  IF header.status # "ok" THEN Loaded(header.status, <<>>, <<>>)
        ELSE LoadPayloads(data, header,
                          find_payloads(parse_xar_toc(data, header)), 1,
                          Loaded("ok", <<>>, <<>>))

\* what next() returns: a FileInfo, or None
Returned(info) == [none |-> FALSE, info |-> info]
ReturnedNone ==
    [none |-> TRUE,
     info |-> FileInfo(<<>>, 0, PyInt(0), PyInt(0), PyInt(0), FALSE, FALSE,
                       None)]

(***************************************************************************)
(* Packages given to PkgReader                                              *)
(***************************************************************************)
\* how many times next() is called after it has returned None
MaxNone == 1

\* a cpio archive of regular files with content b"x" at the given paths, in
\* the given order
RECURSIVE AddPaths(_, _)
AddPaths(writer, paths) ==
    IF paths = <<>> THEN writer
    ELSE AddPaths(add_file(writer, Head(paths), Bytes(<<120>>), 33188,
                           PyInt(0), PyInt(0), 0),
                  Tail(paths))

PkgArchive(paths) == finish(AddPaths(NewWriter, paths)).stream

\* the archives: "a" then "b"; "b" then "a"; "a" alone
PkgArchives ==
    { PkgArchive(<< <<97>>, <<98>> >>), PkgArchive(<< <<98>>, <<97>> >>),
      PkgArchive(<< <<97>> >>) }

\* the ways a payload is stored in the heap: the cpio archive itself, gzip
\* of it, gzip of gzip of it, bzip2 of it, bzip2 of gzip of it
StoredForms(cpio) ==
    { cpio, gzip_compress(cpio), gzip_compress(gzip_compress(cpio)),
      bz2_compress(cpio), bz2_compress(gzip_compress(cpio)) }

Encodings == {EncOctetStream, EncGzip, EncBzip2, EncLzma, <<>>}

\* a package with one Payload at heap offset 0
OnePayload(encoding, stored) ==
    XarData(XAR_MAGIC, XAR_HEADER_SIZE, 40,
            << FileElement(Payload, TRUE, 0, Len(stored), Len(stored),
                           encoding) >>,
            stored)

\* a package with a Bom, then two Payloads of gzip cpio, octet-stream
TwoPayloads(cpio1, cpio2) ==
    LET bom == <<1, 2, 3>>
        p1 == gzip_compress(cpio1)
        p2 == gzip_compress(cpio2)
    IN  XarData(XAR_MAGIC, XAR_HEADER_SIZE, 40,
                << FileElement(Bom, TRUE, 0, 3, 3, EncOctetStream),
                   FileElement(Payload, TRUE, 3, Len(p1), Len(p1),
                               EncOctetStream),
                   FileElement(Payload, FALSE, 0, 0, 0, <<>>),
                   FileElement(Payload, TRUE, 3 + Len(p1), Len(p2), Len(p2),
                               EncOctetStream) >>,
                bom \o p1 \o p2)

\* a file that is no XAR file; a Payload that extends past the end of the
\* data; a Payload of length 0
OtherPackages ==
    { XarData(<<120, 97, 114, 63>>, XAR_HEADER_SIZE, 40, <<>>, <<>>),
      XarData(XAR_MAGIC, XAR_HEADER_SIZE, 40,
              << FileElement(Payload, TRUE, 0, 9, 9, EncOctetStream) >>,
              <<1, 2, 3>>),
      XarData(XAR_MAGIC, XAR_HEADER_SIZE, 40,
              << FileElement(Payload, TRUE, 0, 0, 0, EncGzip) >>, <<>>) }

Packages ==
    {OnePayload(e, s) : e \in Encodings,
                        s \in UNION {StoredForms(c) : c \in PkgArchives}}
        \cup {TwoPayloads(c1, c2) : c1, c2 \in PkgArchives}
        \cup OtherPackages

PkgIdle ==
    /\ pkg_data = XarData(XAR_MAGIC, XAR_HEADER_SIZE, 0, <<>>, <<>>)
    /\ pkg_status = "idle"
    /\ pkg_items = <<>>
    /\ pkg_index = 0
    /\ pkg_fed = <<>>
    /\ pkg_out = <<>>
    /\ pkg_done = "unasked"

PkgInit ==
    /\ pkg_data \in Packages
    /\ pkg_status = "new"
    /\ pkg_items = <<>>
    /\ pkg_index = 0
    /\ pkg_fed = <<>>
    /\ pkg_out = <<>>
    /\ pkg_done = "unasked"

\* PkgReader(pkg_data=...): __init__ runs _load; an exception leaves no
\* reader
PkgOpen ==
    /\ pkg_status = "new"
    /\ LET st == load(pkg_data)
       IN  /\ pkg_status' = IF st.status = "ok" THEN "open" ELSE st.status
           /\ pkg_items' = IF st.status = "ok" THEN st.items ELSE <<>>
           /\ pkg_fed' = st.fed
    /\ pkg_index' = 0
    /\ UNCHANGED <<pkg_data, pkg_out, pkg_done>>

\* next()
PkgNext ==
    /\ pkg_status = "open"
    /\ Len(pkg_out) < Len(pkg_items) + MaxNone
    /\ IF pkg_index < Len(pkg_items)
       THEN /\ pkg_out' = Append(pkg_out, Returned(pkg_items[pkg_index + 1]))
            /\ pkg_index' = pkg_index + 1
       ELSE /\ pkg_out' = Append(pkg_out, ReturnedNone)
            /\ pkg_index' = pkg_index
    /\ UNCHANGED <<pkg_data, pkg_status, pkg_items, pkg_fed, pkg_done>>

\* is_done(); pkg_done keeps what the last call returned
PkgIsDone ==
    /\ pkg_status = "open"
    /\ pkg_done' = IF pkg_index >= Len(pkg_items) THEN "true" ELSE "false"
    /\ UNCHANGED <<pkg_data, pkg_status, pkg_items, pkg_index, pkg_fed,
                   pkg_out>>

(***************************************************************************)
(* Mode defaulting: one add call, with a drawn mode argument, made on a     *)
(* fresh CpioWriter and on a fresh RpmWriter                                *)
(***************************************************************************)
\* mode arguments: permission bits only (0, 0o644, 0o755, 0o777, 0o1777,
\* 0o4755, 0o7777) and modes that carry type bits (0o100644, 0o040755,
\* 0o120777, 0o060644, 0o010644)
ModeArguments ==
    {0, 420, 493, 511, 1023, 2541, 4095, 33188, 16877, 41471, 24996, 4516}

ModeCalls ==
    {[op |-> op, mode |-> mode] :
        op \in {"add_file", "add_directory", "add_symlink"},
        mode \in ModeArguments}

ModeIdle ==
    /\ mode_call = [op |-> "add_file", mode |-> 0]
    /\ mode_cpio = <<>>
    /\ mode_rpm = <<>>

ModeInit ==
    /\ mode_call \in ModeCalls
    /\ mode_cpio = <<>>
    /\ mode_rpm = <<>>

\* CpioWriter: add_file("p", b"x", mode), add_directory("p", mode) or
\* add_symlink("p", "t", mode)
ModeCpioAdd ==
    /\ mode_cpio = <<>>
    /\ mode_cpio' =
         (IF mode_call.op = "add_file"
          THEN add_file(NewWriter, <<112>>, Bytes(<<120>>), mode_call.mode,
                        PyInt(0), PyInt(0), 0)
          ELSE IF mode_call.op = "add_directory"
          THEN add_directory(NewWriter, <<112>>, mode_call.mode, PyInt(0),
                             PyInt(0), 0)
          ELSE add_symlink(NewWriter, <<112>>, <<116>>, mode_call.mode,
                           PyInt(0), PyInt(0), 0)).stream
    /\ UNCHANGED <<mode_call, mode_rpm>>

\* RpmWriter: add_file("/p", b"x", mode), add_directory("/p", mode) or
\* add_symlink("/p", "t", mode)
ModeRpmAdd ==
    /\ mode_rpm = <<>>
    /\ mode_rpm' =
         (IF mode_call.op = "add_file"
          THEN rpm_add_file(SmallPackage(Gzip), <<47, 112>>, Bytes(<<120>>),
                            mode_call.mode, PyInt(0), PyInt(0), Root, Root)
          ELSE IF mode_call.op = "add_directory"
          THEN rpm_add_directory(SmallPackage(Gzip), <<47, 112>>,
                                 mode_call.mode, PyInt(0), PyInt(0), Root,
                                 Root)
          ELSE rpm_add_symlink(SmallPackage(Gzip), <<47, 112>>, <<116>>,
                               mode_call.mode, PyInt(0), PyInt(0), Root,
                               Root)).files
    /\ UNCHANGED <<mode_call, mode_cpio>>

(***************************************************************************)
(* HfsPlusReader and DmgReader (contrib/tools/lib/dmg_reader.py)            *)
(*                                                                          *)
(* The catalog is taken as parsed: entries is HfsPlusReader.entries, the    *)
(* dict cnid -> (parent_cnid, name, record_type, info) as a list in the     *)
(* dict's insertion order.  The data field of an entry is what              *)
(* read_file(cnid) returns for it.  File contents are XarData records; the  *)
(* bytes of a file that is no XAR archive are the heap of a record with an  *)
(* empty header.                                                            *)
(***************************************************************************)
FOLDER_RECORD == 1
FILE_RECORD == 2
ROOT_PARENT_CNID == 1
ROOT_FOLDER_CNID == 2

PkgPrefix == <<64, 80, 75, 71, 64, 47>>   \* "@PKG@/"
DotPkg == <<46, 112, 107, 103>>   \* ".pkg"

\* bytes that are not read as a XAR archive
PlainData(b) ==
    XarData(SubSeq(b, 1, IF Len(b) < 4 THEN Len(b) ELSE 4), 0, 0, <<>>, b)

HfsEntry(cnid, parent_cnid, name, rec_type, mode, uid, gid, size, data) ==
    [cnid |-> cnid, parent_cnid |-> parent_cnid, name |-> name,
     rec_type |-> rec_type, mode |-> mode, uid |-> uid, gid |-> gid,
     size |-> size, data |-> data]

\* cnid in self.entries, and self.entries[cnid]
HasEntry(entries, cnid) == \E k \in DOMAIN entries : entries[k].cnid = cnid
EntryAt(entries, cnid) ==
    entries[CHOOSE k \in DOMAIN entries : entries[k].cnid = cnid]

\* "/".join(parts)
RECURSIVE JoinSlash(_)
JoinSlash(parts) ==
    IF parts = <<>> THEN <<>>
    ELSE IF Len(parts) = 1 THEN parts[1]
    ELSE parts[1] \o Slash \o JoinSlash(Tail(parts))

\* the loop of build_path: parts holds the names from the outermost
\* ancestor found so far down to the entry
RECURSIVE BuildParts(_, _, _, _)
BuildParts(entries, current, seen, parts) ==
    IF ~HasEntry(entries, current) \/ current \in seen THEN parts
    ELSE LET e == EntryAt(entries, current)
             collected == <<e.name>> \o parts
         IN  IF e.parent_cnid = ROOT_FOLDER_CNID
                \/ e.parent_cnid = ROOT_PARENT_CNID
             THEN collected
             ELSE BuildParts(entries, e.parent_cnid, seen \cup {current},
                             collected)

\* build_path without parts.reverse()
build_path_NoReverse(entries, cnid) ==
    LET parts == BuildParts(entries, cnid, {}, <<>>)
    IN  JoinSlash([i \in 1..Len(parts) |-> parts[Len(parts) + 1 - i]])
build_path(entries, cnid) == JoinSlash(BuildParts(entries, cnid, {}, <<>>))

\* read_file(cnid): the content of a file record's data fork; a ValueError
\* (status "ValueError") when the CNID is unknown or is no file record
read_file(entries, cnid) ==
    IF ~HasEntry(entries, cnid)
    THEN [status |-> "ValueError", data |-> PlainData(<<>>)]
    ELSE IF EntryAt(entries, cnid).rec_type # FILE_RECORD
    THEN [status |-> "ValueError", data |-> PlainData(<<>>)]
    ELSE [status |-> "ok", data |-> EntryAt(entries, cnid).data]

\* list.sort(key=lambda x: x.path): ascending by code point and stable
PathBefore(a, b) ==
    \E k \in 1..(Len(a) + 1) :
        /\ k <= Len(b)
        /\ \A j \in 1..(k - 1) : j <= Len(a) /\ a[j] = b[j]
        /\ (k = Len(a) + 1 \/ a[k] < b[k])

PathPosition(items, i) ==
    1 + Cardinality({j \in DOMAIN items :
                        \/ PathBefore(items[j].path, items[i].path)
                        \/ items[j].path = items[i].path /\ j < i})

SortByPath(items) ==
    [p \in DOMAIN items |->
        items[CHOOSE i \in DOMAIN items : PathPosition(items, i) = p]]

\* the FileInfo get_all_files builds for one entry
HfsFileInfo(entries, e) ==
    LET path == build_path(entries, e.cnid)
        is_symlink == TypeBits(e.mode) = S_IFLNK
        is_dir == e.rec_type = FOLDER_RECORD
        mode_raw == IF is_dir /\ e.mode = 0 THEN S_IFDIR + 493
                    ELSE IF ~is_dir /\ ~is_symlink /\ e.mode = 0 THEN 33188
                    ELSE e.mode
    IN  IF e.rec_type = FOLDER_RECORD
        THEN FileInfo(path, 0,
                      PyInt(IF mode_raw # 0 THEN mode_raw ELSE S_IFDIR + 493),
                      PyInt(e.uid), PyInt(e.gid), TRUE, FALSE, None)
        ELSE FileInfo(path, IF is_symlink THEN 0 ELSE e.size, PyInt(mode_raw),
                      PyInt(e.uid), PyInt(e.gid), FALSE, is_symlink, None)

\* the entries get_all_files keeps: not the root folder, not an empty path
Listed(entries) ==
    SelectSeq(entries, LAMBDA e : /\ e.cnid # ROOT_FOLDER_CNID
                                  /\ build_path(entries, e.cnid) # <<>>)

get_all_files(entries) ==
    LET kept == Listed(entries)
    IN  SortByPath([k \in DOMAIN kept |-> HfsFileInfo(entries, kept[k])])

\* name.endswith(".pkg")
EndsWithPkg(name) ==
    Len(name) >= Len(DotPkg)
        /\ SubSeq(name, Len(name) - Len(DotPkg) + 1, Len(name)) = DotPkg

\* the entries DmgReader._load appends for one catalog entry: those of the
\* inner package, re-prefixed; none when the entry is no .pkg file, is
\* empty, is no XAR archive, or reading it raises
InnerPkgItems(entries, e) ==
    IF e.rec_type # FILE_RECORD \/ ~EndsWithPkg(e.name) THEN <<>>
    ELSE LET pkg_bytes == read_file(entries, e.cnid)
             pkg == load(pkg_bytes.data)
         IN  IF pkg_bytes.status # "ok" THEN <<>>
             ELSE IF DataLen(pkg_bytes.data) = 0
                     \/ pkg_bytes.data.magic # XAR_MAGIC THEN <<>>
             ELSE IF pkg.status # "ok" THEN <<>>
             ELSE [k \in DOMAIN pkg.items |->
                      [pkg.items[k] EXCEPT !.path = PkgPrefix \o @]]

RECURSIVE AppendInner(_, _, _)
AppendInner(entries, k, items) ==
    IF k > Len(entries) THEN items
    ELSE AppendInner(entries, k + 1, items \o InnerPkgItems(entries, entries[k]))

\* DmgReader._load from the parsed catalog on
dmg_load(entries) == SortByPath(AppendInner(entries, 1, get_all_files(entries)))

(***************************************************************************)
(* Catalogs                                                                 *)
(***************************************************************************)
MaxEntries == 2

\* an inner package with the files "a" and "b", one with the file "a", and
\* one whose payload is not gzip
InnerAB ==
    OnePayload(EncOctetStream,
               gzip_compress(PkgArchive(<< <<97>>, <<98>> >>)))
InnerA == OnePayload(EncOctetStream, gzip_compress(PkgArchive(<< <<97>> >>)))
InnerBroken == OnePayload(EncOctetStream, PkgArchive(<< <<97>> >>))

\* the entries a catalog is made of: the root folder "Vol"; a folder "d"
\* with no mode; a folder "e" inside "d" with mode 0o040700; a file "f" in
\* "d" (3 bytes); a symlink "l" (its data fork holds the target, 5 bytes);
\* a file "z" with no mode; a file "a" whose mode has the directory bits
\* (4 bytes); a folder "k" whose mode has the symlink bits; a file "o" whose
\* parent is not in the catalog; three .pkg files; a file "x" and a folder
\* "y" that are each other's parent; a folder "s" that is its own parent
CatalogEntries ==
    { HfsEntry(2, 1, <<86, 111, 108>>, FOLDER_RECORD, 16877, 0, 0, 0,
               PlainData(<<>>)),
      HfsEntry(16, 2, <<100>>, FOLDER_RECORD, 0, 0, 0, 0, PlainData(<<>>)),
      HfsEntry(17, 16, <<101>>, FOLDER_RECORD, 16832, 501, 20, 0,
               PlainData(<<>>)),
      HfsEntry(18, 16, <<102>>, FILE_RECORD, 33188, 501, 20, 3,
               PlainData(<<1, 2, 3>>)),
      HfsEntry(19, 2, <<108>>, FILE_RECORD, 41471, 0, 0, 5,
               PlainData(<<100, 47, 102, 0, 0>>)),
      HfsEntry(20, 2, <<122>>, FILE_RECORD, 0, 0, 0, 0, PlainData(<<>>)),
      HfsEntry(21, 2, <<97>>, FILE_RECORD, 16877, 0, 0, 4,
               PlainData(<<1, 2, 3, 4>>)),
      HfsEntry(22, 2, <<107>>, FOLDER_RECORD, 41453, 0, 0, 0, PlainData(<<>>)),
      HfsEntry(23, 99, <<111>>, FILE_RECORD, 33188, 0, 0, 1, PlainData(<<7>>)),
      HfsEntry(24, 2, <<112, 46, 112, 107, 103>>, FILE_RECORD, 33188, 0, 0,
               DataLen(InnerAB), InnerAB),
      HfsEntry(25, 16, <<113, 46, 112, 107, 103>>, FILE_RECORD, 33188, 0, 0,
               DataLen(InnerA), InnerA),
      HfsEntry(26, 2, <<114, 46, 112, 107, 103>>, FILE_RECORD, 33188, 0, 0,
               DataLen(InnerBroken), InnerBroken),
      HfsEntry(27, 28, <<120>>, FILE_RECORD, 33188, 0, 0, 1, PlainData(<<7>>)),
      HfsEntry(28, 27, <<121>>, FOLDER_RECORD, 16877, 0, 0, 0,
               PlainData(<<>>)),
      HfsEntry(29, 29, <<115>>, FOLDER_RECORD, 16877, 0, 0, 0,
               PlainData(<<>>)) }

\* the catalogs: up to MaxEntries entries with distinct CNIDs, in any order
Catalogs ==
    {c \in SeqsUpTo(CatalogEntries, MaxEntries) :
        \A i, j \in DOMAIN c : c[i].cnid = c[j].cnid => i = j}

DmgIdle ==
    /\ hfs_entries = <<>>
    /\ hfs_files = <<>>
    /\ hfs_pc = "idle"
    /\ dmg_status = "idle"
    /\ dmg_items = <<>>
    /\ dmg_index = 0
    /\ dmg_done = FALSE
    /\ dmg_out = <<>>
    /\ dmg_asked = "unasked"

DmgInit ==
    /\ hfs_entries \in Catalogs
    /\ hfs_files = <<>>
    /\ hfs_pc = "new"
    /\ dmg_status = "new"
    /\ dmg_items = <<>>
    /\ dmg_index = 0
    /\ dmg_done = FALSE
    /\ dmg_out = <<>>
    /\ dmg_asked = "unasked"

\* HfsPlusReader(image).get_all_files()
HfsGetAllFiles ==
    /\ hfs_pc = "new"
    /\ hfs_files' = get_all_files(hfs_entries)
    /\ hfs_pc' = "listed"
    /\ UNCHANGED <<hfs_entries, dmg_status, dmg_items, dmg_index, dmg_done,
                   dmg_out, dmg_asked>>

\* DmgReader(dmg_path): __init__ and _load
DmgOpen ==
    /\ dmg_status = "new"
    /\ dmg_items' = dmg_load(hfs_entries)
    /\ dmg_index' = 0
    /\ dmg_done' = FALSE
    /\ dmg_status' = "open"
    /\ UNCHANGED <<hfs_entries, hfs_files, hfs_pc, dmg_out, dmg_asked>>

\* DmgReader.next()
DmgNext ==
    /\ dmg_status = "open"
    /\ Len(dmg_out) < Len(dmg_items) + MaxNone
    /\ IF dmg_index < Len(dmg_items)
       THEN /\ dmg_out' = Append(dmg_out, Returned(dmg_items[dmg_index + 1]))
            /\ dmg_index' = dmg_index + 1
            /\ dmg_done' = dmg_done
       ELSE /\ dmg_out' = Append(dmg_out, ReturnedNone)
            /\ dmg_index' = dmg_index
            /\ dmg_done' = TRUE
    /\ UNCHANGED <<hfs_entries, hfs_files, hfs_pc, dmg_status, dmg_items,
                   dmg_asked>>

\* DmgReader.is_done(); dmg_asked keeps what the last call returned
DmgIsDone ==
    /\ dmg_status = "open"
    /\ dmg_asked' = IF dmg_done THEN "true" ELSE "false"
    /\ UNCHANGED <<hfs_entries, hfs_files, hfs_pc, dmg_status, dmg_items,
                   dmg_index, dmg_done, dmg_out>>

(***************************************************************************)
(* decompress_udif (contrib/tools/lib/dmg_reader.py)                        *)
(*                                                                          *)
(* The chunk table is taken as parsed: all_chunks is what parse_blkx_chunks *)
(* returned for the selected partition.  The compressed field of a chunk is *)
(* what f.read(compressed_length) returns at its compressed_offset.  Block  *)
(* types are 32-bit values, kept as the pair of their 16-bit halves.        *)
(***************************************************************************)
SECTOR_SIZE == 512

BLOCK_ZERO_FILL == PyInt(0)
BLOCK_RAW == PyInt(1)
BLOCK_IGNORE == PyInt(2)
BLOCK_ZLIB == [hi |-> 32768, lo |-> 5]        \* 0x80000005
BLOCK_BZ2 == [hi |-> 32768, lo |-> 6]         \* 0x80000006
BLOCK_LZFSE == [hi |-> 32768, lo |-> 7]       \* 0x80000007
BLOCK_LZMA == [hi |-> 32768, lo |-> 8]        \* 0x80000008
BLOCK_ADC == [hi |-> 32768, lo |-> 4]         \* 0x80000004
BLOCK_COMMENT == [hi |-> 32767, lo |-> 65534]     \* 0x7FFFFFFE
BLOCK_TERMINATOR == [hi |-> 65535, lo |-> 65535]  \* 0xFFFFFFFF

Chunk(type, sector_number, sector_count, compressed) ==
    [type |-> type, sector_number |-> sector_number,
     sector_count |-> sector_count, compressed |-> compressed]

\* the codecs: a compressed stream is a magic followed by the data
ZlibMagic == <<120, 156>>
LzfseMagic == <<98, 118, 120, 50>>   \* "bvx2"

zlib_compress(data) == ZlibMagic \o data

\* zlib.decompress: raises zlib.error on anything that is not a stream
zlib_decompress(data) ==
    IF IsPrefix(ZlibMagic, data)
    THEN SubSeq(data, Len(ZlibMagic) + 1, Len(data))
    ELSE Raised

\* lzma.decompress: raises LZMAError on anything that is not a stream
lzma_decompress(data) ==
    IF IsPrefix(XzMagic, data)
    THEN SubSeq(data, Len(XzMagic) + 1, Len(data))
    ELSE Raised

\* liblzfse.decompress, when the module can be imported
lzfse_decompress(data) ==
    IF IsPrefix(LzfseMagic, data)
    THEN SubSeq(data, Len(LzfseMagic) + 1, Len(data))
    ELSE Raised

\* the first loop: the end of the chunk that reaches furthest
RECURSIVE MaxSector(_, _, _)
MaxSector(all_chunks, k, max_sector) ==
    IF k > Len(all_chunks) THEN max_sector
    ELSE LET end == all_chunks[k].sector_number + all_chunks[k].sector_count
         IN  MaxSector(all_chunks, k + 1,
                       IF end > max_sector THEN end ELSE max_sector)

\* image[dest_offset:dest_offset + len(data)] = data, with the slice bounds
\* clamped to the image as Python clamps them
SliceAssign(image, dest_offset, data) ==
    LET lo == IF dest_offset > Len(image) THEN Len(image) ELSE dest_offset
        stop == dest_offset + Len(data)
        hi == IF stop > Len(image) THEN Len(image) ELSE stop
    IN  SubSeq(image, 1, lo) \o data \o SubSeq(image, hi + 1, Len(image))

\* one iteration of the second loop for a chunk: what it does ("skip",
\* "place", "warn" or "raise"), the data it places and the exception it
\* raises
ChunkStep(chunk, have_lzfse) ==
    LET entry_type == chunk.type
        compressed == chunk.compressed
        Skip == [does |-> "skip", data |-> <<>>, error |-> ""]
        Warn == [does |-> "warn", data |-> <<>>, error |-> ""]
        Raise(e) == [does |-> "raise", data |-> <<>>, error |-> e]
        Place(d, e) == IF d = Raised THEN Raise(e)
                       ELSE [does |-> "place", data |-> d, error |-> ""]
    IN  IF entry_type \in {BLOCK_TERMINATOR, BLOCK_COMMENT, BLOCK_IGNORE}
        THEN Skip
        ELSE IF entry_type = BLOCK_ZERO_FILL THEN Skip
        ELSE IF entry_type = BLOCK_RAW THEN Place(compressed, "")
        ELSE IF entry_type = BLOCK_ZLIB
        THEN Place(zlib_decompress(compressed), "zlib.error")
        ELSE IF entry_type = BLOCK_BZ2
        THEN Place(bz2_decompress(compressed), "OSError")
        ELSE IF entry_type = BLOCK_LZMA
        THEN Place(lzma_decompress(compressed), "LZMAError")
        ELSE IF entry_type = BLOCK_LZFSE
        THEN IF have_lzfse
             THEN Place(lzfse_decompress(compressed), "LzfseError")
             ELSE Raise("ImportError")
        ELSE IF entry_type = BLOCK_ADC THEN Warn
        ELSE Warn

(***************************************************************************)
(* Chunk tables                                                             *)
(***************************************************************************)
MaxChunks == 2

\* a sector of the byte b
Sector(b) == [i \in 1..SECTOR_SIZE |-> b]

\* the chunks a table is made of, each one sector long, at sector 0 or 1:
\* raw, zlib, bzip2, lzma and lzfse chunks that decompress; a zlib, a bzip2
\* and an lzma chunk whose bytes are no stream; an ADC chunk; a chunk of an
\* unknown type; a zero-fill chunk; a terminator; a raw and a zlib chunk
\* whose data is longer than a sector, and a raw chunk whose data is shorter
TableChunks ==
    { Chunk(BLOCK_RAW, 0, 1, Sector(1)),
      Chunk(BLOCK_ZLIB, 1, 1, zlib_compress(Sector(2))),
      Chunk(BLOCK_BZ2, 0, 1, bz2_compress(Sector(3))),
      Chunk(BLOCK_LZMA, 1, 1, lzma_compress(Sector(4))),
      Chunk(BLOCK_LZFSE, 1, 1, LzfseMagic \o Sector(5)),
      Chunk(BLOCK_ZLIB, 0, 1, <<0, 0>>),
      Chunk(BLOCK_BZ2, 1, 1, <<0, 0>>),
      Chunk(BLOCK_LZMA, 0, 1, <<0, 0>>),
      Chunk(BLOCK_ADC, 0, 1, <<6, 6>>),
      Chunk([hi |-> 32768, lo |-> 9], 1, 1, <<7>>),
      Chunk(BLOCK_ZERO_FILL, 1, 1, <<>>),
      Chunk(BLOCK_TERMINATOR, 2, 0, <<>>),
      Chunk(BLOCK_RAW, 0, 1, Sector(8) \o <<8>>),
      Chunk(BLOCK_ZLIB, 1, 1, zlib_compress(Sector(9) \o <<9, 9>>)),
      Chunk(BLOCK_RAW, 1, 1, <<10, 10>>) }

ChunkTables == SeqsUpTo(TableChunks, MaxChunks)

UdifIdle ==
    /\ udif_chunks = <<>>
    /\ udif_lzfse = FALSE
    /\ udif_image = <<>>
    /\ udif_k = 0
    /\ udif_pc = "idle"
    /\ udif_error = ""
    /\ udif_warnings = <<>>

UdifInit ==
    /\ udif_chunks \in ChunkTables
    /\ udif_lzfse \in BOOLEAN
    /\ udif_image = <<>>
    /\ udif_k = 0
    /\ udif_pc = "new"
    /\ udif_error = ""
    /\ udif_warnings = <<>>

\* decompress_udif up to the second loop: the image is allocated
UdifAllocate ==
    /\ udif_pc = "new"
    /\ udif_image' = Zeros(MaxSector(udif_chunks, 1, 0) * SECTOR_SIZE)
    /\ udif_k' = 1
    /\ udif_pc' = "loop"
    /\ UNCHANGED <<udif_chunks, udif_lzfse, udif_error, udif_warnings>>

\* one iteration of the second loop
UdifChunk ==
    /\ udif_pc = "loop"
    /\ udif_k <= Len(udif_chunks)
    /\ LET chunk == udif_chunks[udif_k]
           step == ChunkStep(chunk, udif_lzfse)
           dest_offset == chunk.sector_number * SECTOR_SIZE
       IN  /\ udif_image' = IF step.does = "place"
                            THEN SliceAssign(udif_image, dest_offset, step.data)
                            ELSE udif_image
           /\ udif_warnings' = IF step.does = "warn"
                               THEN Append(udif_warnings, udif_k)
                               ELSE udif_warnings
           /\ udif_pc' = IF step.does = "raise" THEN "raised" ELSE "loop"
           /\ udif_error' = step.error
           /\ udif_k' = IF step.does = "raise" THEN udif_k ELSE udif_k + 1
    /\ UNCHANGED <<udif_chunks, udif_lzfse>>

\* return image
UdifReturn ==
    /\ udif_pc = "loop"
    /\ udif_k > Len(udif_chunks)
    /\ udif_pc' = "returned"
    /\ UNCHANGED <<udif_chunks, udif_lzfse, udif_image, udif_k, udif_error,
                   udif_warnings>>

(***************************************************************************)
(* list_contents (contrib/tools/rpm_info.py): the decompress thread writes *)
(* the cpio payload into an InProcessPipe, the caller's CpioReader reads    *)
(* from it.  The pipe, RpmFileReader.stream_cpio and CpioReader follow the  *)
(* concurrency section of the specification: the pipe is a FIFO of bytes    *)
(* with one producer and one consumer; a read waits for the bytes it asks   *)
(* for unless the pipe is closed, and after close() returns what is left,   *)
(* then nothing (EOF).                                                      *)
(***************************************************************************)
\* the last byte of the cpio trailer, after which CpioReader.next() returns
\* None without reading on; the other bytes of a stream are 1, 2, ...
TrailerEnd == <<99>>

\* pipe.write(data)
pipe_write(buf, data) == buf \o data

\* whether pipe.read(n) can return, and what it returns
pipe_readable(buf, closed, n) == Len(buf) >= n \/ closed
pipe_read(buf, n) == SubSeq(buf, 1, IF Len(buf) < n THEN Len(buf) ELSE n)

\* whether CpioReader.next() returns None after a read of n bytes returned
\* data: at end of file (fewer bytes than asked for), or at the trailer
next_is_None(data, n) ==
    \/ Len(data) < n
    \/ \E k \in DOMAIN data : <<data[k]>> = TrailerEnd

(***************************************************************************)
(* Payload streams                                                          *)
(***************************************************************************)
MaxPayload == 3     \* bytes before the trailer
MaxWrite == 2       \* bytes stream_cpio writes in one pipe.write
MaxRead == 2        \* bytes CpioReader asks for in one pipe.read

\* the bytes stream_cpio writes when nothing fails: archives that end with
\* the trailer, and streams that end without one
Streams ==
    {[i \in 1..n |-> i] \o t : n \in 0..MaxPayload, t \in {<<>>, TrailerEnd}}

PipeIdle ==
    /\ pipe_stream = <<>>
    /\ pipe_written = <<>>
    /\ pipe_buf = <<>>
    /\ pipe_closed = FALSE
    /\ prod_pc = "idle"
    /\ prod_raised = FALSE
    /\ main_pc = "idle"
    /\ cons_got = <<>>
    /\ cons_eof = FALSE

PipeInit ==
    /\ pipe_stream \in Streams
    /\ pipe_written = <<>>
    /\ pipe_buf = <<>>
    /\ pipe_closed = FALSE
    /\ prod_pc = "unstarted"
    /\ prod_raised = FALSE
    /\ main_pc = "new"
    /\ cons_got = <<>>
    /\ cons_eof = FALSE

\* list_contents up to the read loop: the pipe is created, the thread is
\* started, the CpioReader is constructed
ListContentsStart ==
    /\ main_pc = "new"
    /\ main_pc' = "loop"
    /\ prod_pc' = "try"
    /\ UNCHANGED <<pipe_stream, pipe_written, pipe_buf, pipe_closed,
                   prod_raised, cons_got, cons_eof>>

\* decompress, in reader.stream_cpio(pipe): the next bytes are written
DecompressWrite ==
    /\ prod_pc = "try"
    /\ \E n \in 1..MaxWrite :
          /\ Len(pipe_written) + n <= Len(pipe_stream)
          /\ LET data == SubSeq(pipe_stream, Len(pipe_written) + 1,
                                Len(pipe_written) + n)
             IN  /\ pipe_buf' = pipe_write(pipe_buf, data)
                 /\ pipe_written' = pipe_written \o data
    /\ UNCHANGED <<pipe_stream, pipe_closed, prod_pc, prod_raised, main_pc,
                   cons_got, cons_eof>>

\* decompress, in reader.stream_cpio(pipe): an exception is raised
DecompressRaise ==
    /\ prod_pc = "try"
    /\ prod_pc' = "except"
    /\ prod_raised' = TRUE
    /\ UNCHANGED <<pipe_stream, pipe_written, pipe_buf, pipe_closed, main_pc,
                   cons_got, cons_eof>>

\* decompress: reader.stream_cpio(pipe) returns, all bytes written
DecompressReturn ==
    /\ prod_pc = "try"
    /\ pipe_written = pipe_stream
    /\ prod_pc' = "finally"
    /\ UNCHANGED <<pipe_stream, pipe_written, pipe_buf, pipe_closed,
                   prod_raised, main_pc, cons_got, cons_eof>>

\* a thread function whose except clause ends the thread, with no finally
\* clause to close the pipe
DecompressExcept_NoFinally ==
    /\ prod_pc = "except"
    /\ prod_pc' = "done"
    /\ UNCHANGED <<pipe_stream, pipe_written, pipe_buf, pipe_closed,
                   prod_raised, main_pc, cons_got, cons_eof>>

\* decompress: the except clause prints the error
DecompressExcept ==
    /\ prod_pc = "except"
    /\ prod_pc' = "finally"
    /\ UNCHANGED <<pipe_stream, pipe_written, pipe_buf, pipe_closed,
                   prod_raised, main_pc, cons_got, cons_eof>>

\* decompress: the finally clause closes the pipe, and the thread ends
DecompressFinally ==
    /\ prod_pc = "finally"
    /\ pipe_closed' = TRUE
    /\ prod_pc' = "done"
    /\ UNCHANGED <<pipe_stream, pipe_written, pipe_buf, prod_raised, main_pc,
                   cons_got, cons_eof>>

\* the read loop: cpio.next() reads from the pipe; the loop ends when it
\* returns None
CpioNextRead ==
    /\ main_pc = "loop"
    /\ \E n \in 1..MaxRead :
          /\ pipe_readable(pipe_buf, pipe_closed, n)
          /\ LET data == pipe_read(pipe_buf, n)
             IN  /\ pipe_buf' = SubSeq(pipe_buf, Len(data) + 1, Len(pipe_buf))
                 /\ cons_got' = cons_got \o data
                 /\ cons_eof' = (Len(data) < n)
                 /\ main_pc' = IF next_is_None(data, n) THEN "join"
                               ELSE "loop"
    /\ UNCHANGED <<pipe_stream, pipe_written, pipe_closed, prod_pc,
                   prod_raised>>

\* thread.join(timeout=5): returns when the thread has ended or the
\* timeout has passed
ThreadJoin ==
    /\ main_pc = "join"
    /\ main_pc' = "returned"
    /\ UNCHANGED <<pipe_stream, pipe_written, pipe_buf, pipe_closed, prod_pc,
                   prod_raised, cons_got, cons_eof>>

(***************************************************************************)
(* TarReader (contrib/tools/lib/tar_reader.py), after the tar reader        *)
(* section of the specification: the entries are walked in archive order,   *)
(* and the path of a yielded entry is the header name with a single         *)
(* leading "./" stripped exactly once.  An archive is the list of its       *)
(* header names.                                                            *)
(***************************************************************************)
DotSlash == <<46, 47>>   \* "./"

\* the path yielded for a header name
tar_path(name) ==
    IF IsPrefix(DotSlash, name) THEN SubSeq(name, 3, Len(name)) ELSE name

(***************************************************************************)
(* Tar archives                                                             *)
(***************************************************************************)
MaxName == 4        \* characters in a header name

\* header names over the characters ".", "/" and "a"
TarNames == UNION {[1..n -> {46, 47, 97}] : n \in 1..MaxName}

\* archives of one entry, and of an entry followed by "./b"
TarArchives ==
    {<<n>> : n \in TarNames} \cup {<<n, <<46, 47, 98>> >> : n \in TarNames}

TarIdle ==
    /\ tar_names = <<>>
    /\ tar_pos = 0
    /\ tar_paths = <<>>
    /\ tar_pc = "idle"

TarInit ==
    /\ tar_names \in TarArchives
    /\ tar_pos = 0
    /\ tar_paths = <<>>
    /\ tar_pc = "open"

\* TarReader.next(): the next entry of the archive, or None at its end
TarNext ==
    /\ tar_pc = "open"
    /\ IF tar_pos < Len(tar_names)
       THEN /\ tar_paths' = Append(tar_paths, tar_path(tar_names[tar_pos + 1]))
            /\ tar_pos' = tar_pos + 1
            /\ tar_pc' = tar_pc
       ELSE /\ tar_paths' = tar_paths
            /\ tar_pos' = tar_pos
            /\ tar_pc' = "done"
    /\ UNCHANGED tar_names

(***************************************************************************)
(* main of rpm_info (contrib/tools/rpm_info.py)                             *)
(*                                                                          *)
(* The file named on the command line is missing, is no RPM file            *)
(* (RpmFileReader.read_headers raises ValueError) or is a well-formed RPM   *)
(* file.  A call of a function with a number of positional arguments its    *)
(* signature does not take raises TypeError, as every Python call does.     *)
(***************************************************************************)
\* the parsed command line: the mode flags (at most one is set, they are
\* mutually exclusive), --extract-header's value (None when absent) and
\* --names
Args(analyze, headers, extract_header, list, names) ==
    [analyze |-> analyze, headers |-> headers,
     extract_header |-> extract_header, list |-> list, names |-> names]

\* the positional parameters of the mode handlers: how many a call must
\* give at least, and how many it may give at most
Signature(least, most) == [least |-> least, most |-> most]
show_summary == Signature(1, 1)       \* (reader)
show_analyze == Signature(1, 1)       \* (reader)
show_headers == Signature(1, 2)       \* (reader, use_names=False)
extract_header == Signature(2, 2)     \* (reader, output_path)
list_contents == Signature(1, 1)      \* (reader)

\* the outcome of calling a handler with n positional arguments on the
\* reader of a well-formed file
CallHandler(signature, n) ==
    IF n < signature.least \/ n > signature.most THEN "TypeError" ELSE "ok"

\* the if/elif chain of main; an empty --extract-header value is falsy
Dispatch(args) ==
    IF args.analyze THEN CallHandler(show_analyze, 2)
    ELSE IF args.headers THEN CallHandler(show_headers, 1)
    ELSE IF args.extract_header # None /\ args.extract_header # ""
    THEN CallHandler(extract_header, 2)
    ELSE IF args.list THEN CallHandler(list_contents, 1)
    ELSE CallHandler(show_summary, 2)

(***************************************************************************)
(* Command lines                                                            *)
(***************************************************************************)
CommandLines ==
    {Args(a, h, x, l, n) :
        a \in BOOLEAN, h \in BOOLEAN, x \in {None, "", "out.bin"},
        l \in BOOLEAN, n \in BOOLEAN}

\* argparse accepts at most one option of the mode group
OneMode(args) ==
    Cardinality({m \in {"a", "h", "x", "l"} :
                    \/ m = "a" /\ args.analyze
                    \/ m = "h" /\ args.headers
                    \/ m = "x" /\ args.extract_header # None
                    \/ m = "l" /\ args.list}) <= 1

InfoIdle ==
    /\ info_args = Args(FALSE, FALSE, None, FALSE, FALSE)
    /\ info_file = "none"
    /\ info_verbose = FALSE
    /\ info_pc = "idle"
    /\ info_raised = ""
    /\ info_result = ""

InfoInit ==
    /\ info_args \in {args \in CommandLines : OneMode(args)}
    /\ info_file \in {"missing", "malformed", "wellformed"}
    /\ info_verbose \in BOOLEAN
    /\ info_pc = "try"
    /\ info_raised = ""
    /\ info_result = ""

\* main: os.path.getsize, open, RpmFileReader(f), read_headers()
InfoOpen ==
    /\ info_pc = "try"
    /\ info_raised' = IF info_file = "missing" THEN "FileNotFoundError"
                      ELSE IF info_file = "malformed" THEN "ValueError"
                      ELSE ""
    /\ info_pc' = IF info_file = "wellformed" THEN "dispatch" ELSE "except"
    /\ UNCHANGED <<info_args, info_file, info_verbose, info_result>>

\* main: the handler of the selected mode is called
InfoDispatch ==
    /\ info_pc = "dispatch"
    /\ LET outcome == Dispatch(info_args)
       IN  /\ info_raised' = IF outcome = "ok" THEN "" ELSE outcome
           /\ info_pc' = IF outcome = "ok" THEN "return" ELSE "except"
    /\ UNCHANGED <<info_args, info_file, info_verbose, info_result>>

\* main: the except clauses; an exception they do not name leaves main
InfoExcept ==
    /\ info_pc = "except"
    /\ info_result' = IF info_raised \in {"FileNotFoundError", "ValueError"}
                      THEN "1"
                      ELSE info_raised
    /\ info_pc' = "done"
    /\ UNCHANGED <<info_args, info_file, info_verbose, info_raised>>

\* main: return 0
InfoReturn ==
    /\ info_pc = "return"
    /\ info_result' = "0"
    /\ info_pc' = "done"
    /\ UNCHANGED <<info_args, info_file, info_verbose, info_raised>>

(***************************************************************************)
(* RpmHeaderBuilder used on its own: add_* calls in any order, then build() *)
(***************************************************************************)
MaxHdrEntries == 3

\* the tags and the values the add_* calls are made with
HdrTags == {1000, 1001}
HdrInt32Values == {<<PyInt(9)>>, <<PyInt(9), PyInt(70000)>>}
HdrInt16Values == {<<5>>}
HdrStringValues == {<<97>>}                    \* "a"
HdrStringArrayValues == {<< <<97>>, <<98, 99>> >>}   \* ["a", "bc"]
HdrBinValues == {<<7>>}
HdrI18nValues == {<<97, 98>>}                  \* "ab"

HdrIdle ==
    /\ hdr_entries = <<>>
    /\ hdr_bytes = <<>>
    /\ hdr_pc = "idle"

HdrInit ==
    /\ hdr_entries = <<>>
    /\ hdr_bytes = <<>>
    /\ hdr_pc = "adding"

\* self.entries.append(...) of an add_* method
HdrAppend(entry) ==
    /\ hdr_pc = "adding"
    /\ Len(hdr_entries) < MaxHdrEntries
    /\ hdr_entries' = Append(hdr_entries, entry)
    /\ UNCHANGED <<hdr_bytes, hdr_pc>>

HdrAddInt32 ==
    \E tag \in HdrTags, v \in HdrInt32Values : HdrAppend(add_int32(tag, v))
HdrAddInt16 ==
    \E tag \in HdrTags, v \in HdrInt16Values : HdrAppend(add_int16(tag, v))
HdrAddString ==
    \E tag \in HdrTags, v \in HdrStringValues : HdrAppend(add_string(tag, v))
HdrAddStringArray ==
    \E tag \in HdrTags, v \in HdrStringArrayValues :
        HdrAppend(add_string_array(tag, v))
HdrAddBin ==
    \E tag \in HdrTags, v \in HdrBinValues : HdrAppend(add_bin(tag, v))
HdrAddI18nString ==
    \E tag \in HdrTags, v \in HdrI18nValues :
        HdrAppend(add_i18n_string(tag, v))

\* build(): self.entries is sorted in place and the header is returned
HdrBuild ==
    /\ hdr_pc = "adding"
    /\ hdr_entries' = SortByTag(hdr_entries)
    /\ hdr_bytes' = build(hdr_entries)
    /\ hdr_pc' = "built"

(***************************************************************************)
(* HfsPlusReader._read_catalog (contrib/tools/lib/dmg_reader.py)            *)
(*                                                                          *)
(* The catalog bytes are taken node by node: cat_nodes[i] is the node with  *)
(* index i, given by the two fields of its descriptor the walk reads, fLink *)
(* and kind; node 0 is the header node, which holds firstLeafNode.  A node  *)
(* index past the last node is one whose bytes lie beyond the catalog data. *)
(***************************************************************************)
MaxNodes == 2
MaxParses == 2

LEAF_KIND == -1
INDEX_KIND == 0

BTreeNode(f_link, kind) == [f_link |-> f_link, kind |-> kind]

\* the node indices a descriptor can name: 0, a node of the catalog, or one
\* past its end
NodeLinks == 0..(MaxNodes + 1)

CatalogTrees ==
    SeqsUpTo({BTreeNode(f, k) : f \in NodeLinks, k \in {LEAF_KIND, INDEX_KIND}},
             MaxNodes)

CatIdle ==
    /\ cat_nodes = <<>>
    /\ cat_first_leaf = 0
    /\ cat_node_idx = 0
    /\ cat_parsed = <<>>
    /\ cat_pc = "idle"

CatInit ==
    /\ cat_nodes \in CatalogTrees
    /\ cat_first_leaf \in NodeLinks
    /\ cat_node_idx = 0
    /\ cat_parsed = [i \in DOMAIN cat_nodes |-> 0]
    /\ cat_pc = "new"

\* node_off + node_size > len(cat_data)
BeyondCatalog(node_idx) == node_idx > Len(cat_nodes)

\* first_leaf = _read_u32(cat_data, 24); node_idx = first_leaf
CatStart ==
    /\ cat_pc = "new"
    /\ cat_node_idx' = cat_first_leaf
    /\ cat_pc' = "walk"
    /\ UNCHANGED <<cat_nodes, cat_first_leaf, cat_parsed>>

\* the loop ends: node_idx is 0, or the node lies beyond the catalog data
CatReturn ==
    /\ cat_pc = "walk"
    /\ cat_node_idx = 0 \/ BeyondCatalog(cat_node_idx)
    /\ cat_pc' = "returned"
    /\ UNCHANGED <<cat_nodes, cat_first_leaf, cat_node_idx, cat_parsed>>

\* a pass of the loop over a node that is no leaf: node_idx = f_link
CatSkipNode ==
    /\ cat_pc = "walk"
    /\ cat_node_idx # 0 /\ ~BeyondCatalog(cat_node_idx)
    /\ cat_nodes[cat_node_idx].kind # LEAF_KIND
    /\ cat_node_idx' = cat_nodes[cat_node_idx].f_link
    /\ UNCHANGED <<cat_nodes, cat_first_leaf, cat_parsed, cat_pc>>

\* a pass of the loop over a leaf: _parse_leaf_node, then node_idx = f_link;
\* the count of the parses of a node is kept up to MaxParses
CatParseLeaf ==
    /\ cat_pc = "walk"
    /\ cat_node_idx # 0 /\ ~BeyondCatalog(cat_node_idx)
    /\ cat_nodes[cat_node_idx].kind = LEAF_KIND
    /\ cat_parsed' =
          [cat_parsed EXCEPT
              ![cat_node_idx] = IF @ < MaxParses THEN @ + 1 ELSE @]
    /\ cat_node_idx' = cat_nodes[cat_node_idx].f_link
    /\ UNCHANGED <<cat_nodes, cat_first_leaf, cat_pc>>

(***************************************************************************)
(* _find_hfs_blkx (contrib/tools/lib/dmg_reader.py)                         *)
(*                                                                          *)
(* A blkx entry is its Name ("" when the key is missing) and its Data, the  *)
(* bytes of the mish block after any base64 decoding.  The pool keeps the   *)
(* bytes of the big-endian fields small enough for their values to be       *)
(* computed without loss.                                                   *)
(***************************************************************************)
MaxBlkx == 3

MISH_MAGIC == 1835627368   \* 0x6D697368, 'mish'

\* struct.unpack_from(">I", data, off)[0] and struct.unpack_from(">Q", ...)
RECURSIVE unpack_be(_, _, _)
unpack_be(data, off, n) ==
    IF n = 0 THEN 0
    ELSE unpack_be(data, off, n - 1) * 256 + data[off + n]

BlkxEntry(name, data) == [Name |-> name, Data |-> data]

\* "Apple_HFS"
AppleHFS == <<65, 112, 112, 108, 101, 95, 72, 70, 83>>
\* "Apple_HFSX"
AppleHFSX == AppleHFS \o <<88>>

\* a mish block of 24 bytes with the given sector count (below 256)
MishBlock(sector_count) ==
    <<109, 105, 115, 104>> \o Zeros(19) \o <<sector_count>>

\* names: one that contains "Apple_HFS", one that does not, none; data: mish
\* blocks with sector counts 0, 5 and 9, a mish block cut to 20 bytes, and a
\* block of 24 bytes that starts with "misx" and has sector count 200
BlkxEntries ==
    {BlkxEntry(name, data) :
        name \in {<<50, 32>> \o AppleHFS \o <<32, 50>>, <<69, 70, 73>>, <<>>},
        data \in {MishBlock(0), MishBlock(5), MishBlock(9),
                  SubSeq(MishBlock(7), 1, 20),
                  <<109, 105, 115, 120>> \o Zeros(19) \o <<200>>}}

\* the non-empty lists decompress_udif passes
BlkxLists == SeqsUpTo(BlkxEntries, MaxBlkx) \ {<<>>}

BlkxIdle ==
    /\ blkx_list = <<>>
    /\ blkx_found = 0
    /\ blkx_pc = "idle"

BlkxInit ==
    /\ blkx_list \in BlkxLists
    /\ blkx_found = 0
    /\ blkx_pc = "new"

\* "Apple_HFS" in name or "Apple_HFSX" in name
NamesHfs(entry) ==
    IsSubstring(AppleHFS, entry.Name) \/ IsSubstring(AppleHFSX, entry.Name)

\* the fallback loop from entry k on: best is the position of the best entry
\* so far (0 for None)
RECURSIVE LargestMish(_, _, _, _)
LargestMish(list, k, best, best_sectors) ==
    IF k > Len(list) THEN best
    ELSE LET blkx_data == list[k].Data
         IN  IF Len(blkx_data) < 24
             THEN LargestMish(list, k + 1, best, best_sectors)
             ELSE IF unpack_be(blkx_data, 0, 4) # MISH_MAGIC
             THEN LargestMish(list, k + 1, best, best_sectors)
             ELSE LET sector_count == unpack_be(blkx_data, 16, 8)
                  IN  IF sector_count > best_sectors
                      THEN LargestMish(list, k + 1, k, sector_count)
                      ELSE LargestMish(list, k + 1, best, best_sectors)

\* the first loop: the first entry whose name says HFS+ is returned
BlkxByName ==
    /\ blkx_pc = "new"
    /\ IF \E k \in DOMAIN blkx_list : NamesHfs(blkx_list[k])
       THEN /\ blkx_found' = CHOOSE k \in DOMAIN blkx_list :
                                 /\ NamesHfs(blkx_list[k])
                                 /\ \A j \in 1..(k - 1) :
                                       ~NamesHfs(blkx_list[j])
            /\ blkx_pc' = "returned"
       ELSE /\ blkx_found' = 0
            /\ blkx_pc' = "fallback"
    /\ UNCHANGED blkx_list

\* the fallback: the largest partition by sector count, or ValueError
BlkxFallback ==
    /\ blkx_pc = "fallback"
    /\ blkx_found' = LargestMish(blkx_list, 1, 0, 0)
    /\ blkx_pc' = IF blkx_found' # 0 THEN "returned" ELSE "ValueError"
    /\ UNCHANGED blkx_list

(***************************************************************************)
(* Specifications                                                           *)
(***************************************************************************)
CompareFrame ==
    UNCHANGED <<thresholdVars, cpioVars, rpmVars, modeVars, pkgVars, dmgVars,
                udifVars, pipeVars, tarVars, infoVars, hdrVars, catVars,
                blkxVars>>
ThresholdFrame ==
    UNCHANGED <<compareVars, cpioVars, rpmVars, modeVars, pkgVars, dmgVars,
                udifVars, pipeVars, tarVars, infoVars, hdrVars, catVars,
                blkxVars>>
CpioFrame ==
    UNCHANGED <<compareVars, thresholdVars, rpmVars, modeVars, pkgVars,
                dmgVars, udifVars, pipeVars, tarVars, infoVars, hdrVars,
                catVars, blkxVars>>
RpmFrame ==
    UNCHANGED <<compareVars, thresholdVars, cpioVars, modeVars, pkgVars,
                dmgVars, udifVars, pipeVars, tarVars, infoVars, hdrVars,
                catVars, blkxVars>>
ModeFrame ==
    UNCHANGED <<compareVars, thresholdVars, cpioVars, rpmVars, pkgVars,
                dmgVars, udifVars, pipeVars, tarVars, infoVars, hdrVars,
                catVars, blkxVars>>
PkgFrame ==
    UNCHANGED <<compareVars, thresholdVars, cpioVars, rpmVars, modeVars,
                dmgVars, udifVars, pipeVars, tarVars, infoVars, hdrVars,
                catVars, blkxVars>>
DmgFrame ==
    UNCHANGED <<compareVars, thresholdVars, cpioVars, rpmVars, modeVars,
                pkgVars, udifVars, pipeVars, tarVars, infoVars, hdrVars,
                catVars, blkxVars>>
UdifFrame ==
    UNCHANGED <<compareVars, thresholdVars, cpioVars, rpmVars, modeVars,
                pkgVars, dmgVars, pipeVars, tarVars, infoVars, hdrVars,
                catVars, blkxVars>>
PipeFrame ==
    UNCHANGED <<compareVars, thresholdVars, cpioVars, rpmVars, modeVars,
                pkgVars, dmgVars, udifVars, tarVars, infoVars, hdrVars,
                catVars, blkxVars>>
TarFrame ==
    UNCHANGED <<compareVars, thresholdVars, cpioVars, rpmVars, modeVars,
                pkgVars, dmgVars, udifVars, pipeVars, infoVars, hdrVars,
                catVars, blkxVars>>
InfoFrame ==
    UNCHANGED <<compareVars, thresholdVars, cpioVars, rpmVars, modeVars,
                pkgVars, dmgVars, udifVars, pipeVars, tarVars, hdrVars,
                catVars, blkxVars>>
HdrFrame ==
    UNCHANGED <<compareVars, thresholdVars, cpioVars, rpmVars, modeVars,
                pkgVars, dmgVars, udifVars, pipeVars, tarVars, infoVars,
                catVars, blkxVars>>
CatFrame ==
    UNCHANGED <<compareVars, thresholdVars, cpioVars, rpmVars, modeVars,
                pkgVars, dmgVars, udifVars, pipeVars, tarVars, infoVars,
                hdrVars, blkxVars>>
BlkxFrame ==
    UNCHANGED <<compareVars, thresholdVars, cpioVars, rpmVars, modeVars,
                pkgVars, dmgVars, udifVars, pipeVars, tarVars, infoVars,
                hdrVars, catVars>>

InitCompare ==
    CompareInit /\ ThresholdIdle /\ CpioIdle /\ RpmIdle /\ ModeIdle /\
        PkgIdle /\ DmgIdle /\ UdifIdle /\ PipeIdle /\ TarIdle /\ InfoIdle /\
        HdrIdle /\ CatIdle /\ BlkxIdle
NextCompare ==
    \/ CompareStart /\ CompareFrame
    \/ CompareNext /\ CompareFrame
    \/ CompareEnd /\ CompareFrame
SpecCompare == InitCompare /\ [][NextCompare]_vars

InitThreshold ==
    ThresholdInit /\ CompareIdle /\ CpioIdle /\ RpmIdle /\ ModeIdle /\
        PkgIdle /\ DmgIdle /\ UdifIdle /\ PipeIdle /\ TarIdle /\ InfoIdle /\
        HdrIdle /\ CatIdle /\ BlkxIdle
NextThreshold == ThresholdCheck /\ ThresholdFrame
SpecThreshold == InitThreshold /\ [][NextThreshold]_vars

InitCpio ==
    CpioInit /\ CompareIdle /\ ThresholdIdle /\ RpmIdle /\ ModeIdle /\
        PkgIdle /\ DmgIdle /\ UdifIdle /\ PipeIdle /\ TarIdle /\ InfoIdle /\
        HdrIdle /\ CatIdle /\ BlkxIdle
NextCpio ==
    \/ CpioAddFile /\ CpioFrame
    \/ CpioAddDirectory /\ CpioFrame
    \/ CpioAddSymlink /\ CpioFrame
    \/ CpioFinish /\ CpioFrame
    \/ CpioReadBack /\ CpioFrame
SpecCpio == InitCpio /\ [][NextCpio]_vars

InitRpm ==
    RpmInit /\ CompareIdle /\ ThresholdIdle /\ CpioIdle /\ ModeIdle /\
        PkgIdle /\ DmgIdle /\ UdifIdle /\ PipeIdle /\ TarIdle /\ InfoIdle /\
        HdrIdle /\ CatIdle /\ BlkxIdle
NextRpm ==
    \/ RpmAddFile /\ RpmFrame
    \/ RpmAddDirectory /\ RpmFrame
    \/ RpmAddSymlink /\ RpmFrame
    \/ RpmWrite /\ RpmFrame
    \/ RpmReadBack /\ RpmFrame
SpecRpm == InitRpm /\ [][NextRpm]_vars

InitMode ==
    ModeInit /\ CompareIdle /\ ThresholdIdle /\ CpioIdle /\ RpmIdle /\
        PkgIdle /\ DmgIdle /\ UdifIdle /\ PipeIdle /\ TarIdle /\ InfoIdle /\
        HdrIdle /\ CatIdle /\ BlkxIdle
NextMode ==
    \/ ModeCpioAdd /\ ModeFrame
    \/ ModeRpmAdd /\ ModeFrame
SpecMode == InitMode /\ [][NextMode]_vars

InitPkg ==
    PkgInit /\ CompareIdle /\ ThresholdIdle /\ CpioIdle /\ RpmIdle /\
        ModeIdle /\ DmgIdle /\ UdifIdle /\ PipeIdle /\ TarIdle /\ InfoIdle /\
        HdrIdle /\ CatIdle /\ BlkxIdle
NextPkg ==
    \/ PkgOpen /\ PkgFrame
    \/ PkgNext /\ PkgFrame
    \/ PkgIsDone /\ PkgFrame
SpecPkg == InitPkg /\ [][NextPkg]_vars

InitDmg ==
    DmgInit /\ CompareIdle /\ ThresholdIdle /\ CpioIdle /\ RpmIdle /\
        ModeIdle /\ PkgIdle /\ UdifIdle /\ PipeIdle /\ TarIdle /\ InfoIdle /\
        HdrIdle /\ CatIdle /\ BlkxIdle
NextDmg ==
    \/ HfsGetAllFiles /\ DmgFrame
    \/ DmgOpen /\ DmgFrame
    \/ DmgNext /\ DmgFrame
    \/ DmgIsDone /\ DmgFrame
SpecDmg == InitDmg /\ [][NextDmg]_vars

InitUdif ==
    UdifInit /\ CompareIdle /\ ThresholdIdle /\ CpioIdle /\ RpmIdle /\
        ModeIdle /\ PkgIdle /\ DmgIdle /\ PipeIdle /\ TarIdle /\ InfoIdle /\
        HdrIdle /\ CatIdle /\ BlkxIdle
NextUdif ==
    \/ UdifAllocate /\ UdifFrame
    \/ UdifChunk /\ UdifFrame
    \/ UdifReturn /\ UdifFrame
SpecUdif == InitUdif /\ [][NextUdif]_vars

InitPipe ==
    PipeInit /\ CompareIdle /\ ThresholdIdle /\ CpioIdle /\ RpmIdle /\
        ModeIdle /\ PkgIdle /\ DmgIdle /\ UdifIdle /\ TarIdle /\ InfoIdle /\
        HdrIdle /\ CatIdle /\ BlkxIdle
NextPipe ==
    \/ ListContentsStart /\ PipeFrame
    \/ DecompressWrite /\ PipeFrame
    \/ DecompressRaise /\ PipeFrame
    \/ DecompressReturn /\ PipeFrame
    \/ DecompressExcept /\ PipeFrame
    \/ DecompressFinally /\ PipeFrame
    \/ CpioNextRead /\ PipeFrame
    \/ ThreadJoin /\ PipeFrame
SpecPipe == InitPipe /\ [][NextPipe]_vars

\* the two threads of list_contents; each is scheduled again and again while
\* it can take a step
DecompressThread ==
    \/ DecompressWrite /\ PipeFrame
    \/ DecompressRaise /\ PipeFrame
    \/ DecompressReturn /\ PipeFrame
    \/ DecompressExcept /\ PipeFrame
    \/ DecompressFinally /\ PipeFrame
MainThread ==
    \/ ListContentsStart /\ PipeFrame
    \/ CpioNextRead /\ PipeFrame
    \/ ThreadJoin /\ PipeFrame
SpecPipeFair ==
    InitPipe /\ [][NextPipe]_vars
        /\ WF_vars(DecompressThread) /\ WF_vars(MainThread)

InitTar ==
    TarInit /\ CompareIdle /\ ThresholdIdle /\ CpioIdle /\ RpmIdle /\
        ModeIdle /\ PkgIdle /\ DmgIdle /\ UdifIdle /\ PipeIdle /\ InfoIdle /\
        HdrIdle /\ CatIdle /\ BlkxIdle
NextTar ==
    \/ TarNext /\ TarFrame
SpecTar == InitTar /\ [][NextTar]_vars

InitInfo ==
    InfoInit /\ CompareIdle /\ ThresholdIdle /\ CpioIdle /\ RpmIdle /\
        ModeIdle /\ PkgIdle /\ DmgIdle /\ UdifIdle /\ PipeIdle /\ TarIdle /\
        HdrIdle /\ CatIdle /\ BlkxIdle
NextInfo ==
    \/ InfoOpen /\ InfoFrame
    \/ InfoDispatch /\ InfoFrame
    \/ InfoExcept /\ InfoFrame
    \/ InfoReturn /\ InfoFrame
SpecInfo == InitInfo /\ [][NextInfo]_vars

InitHdr ==
    HdrInit /\ CompareIdle /\ ThresholdIdle /\ CpioIdle /\ RpmIdle /\
        ModeIdle /\ PkgIdle /\ DmgIdle /\ UdifIdle /\ PipeIdle /\ TarIdle /\
        InfoIdle /\ CatIdle /\ BlkxIdle
NextHdr ==
    \/ HdrAddInt32 /\ HdrFrame
    \/ HdrAddInt16 /\ HdrFrame
    \/ HdrAddString /\ HdrFrame
    \/ HdrAddStringArray /\ HdrFrame
    \/ HdrAddBin /\ HdrFrame
    \/ HdrAddI18nString /\ HdrFrame
    \/ HdrBuild /\ HdrFrame
SpecHdr == InitHdr /\ [][NextHdr]_vars

InitCat ==
    CatInit /\ CompareIdle /\ ThresholdIdle /\ CpioIdle /\ RpmIdle /\
        ModeIdle /\ PkgIdle /\ DmgIdle /\ UdifIdle /\ PipeIdle /\ TarIdle /\
        InfoIdle /\ HdrIdle /\ BlkxIdle
NextCat ==
    \/ CatStart /\ CatFrame
    \/ CatReturn /\ CatFrame
    \/ CatSkipNode /\ CatFrame
    \/ CatParseLeaf /\ CatFrame
SpecCat == InitCat /\ [][NextCat]_vars

\* _read_catalog runs in one thread, which takes its next step whenever it
\* has one
SpecCatFair == InitCat /\ [][NextCat]_vars /\ WF_vars(NextCat)

InitBlkx ==
    BlkxInit /\ CompareIdle /\ ThresholdIdle /\ CpioIdle /\ RpmIdle /\
        ModeIdle /\ PkgIdle /\ DmgIdle /\ UdifIdle /\ PipeIdle /\ TarIdle /\
        InfoIdle /\ HdrIdle /\ CatIdle
NextBlkx ==
    \/ BlkxByName /\ BlkxFrame
    \/ BlkxFallback /\ BlkxFrame
SpecBlkx == InitBlkx /\ [][NextBlkx]_vars

(***************************************************************************)
(* Properties of the cpio writer (checked under SpecCpio)                   *)
(***************************************************************************)
IsAdd(c) == c.op \in {"add_file", "add_directory", "add_symlink"}

\* the calls made are add calls followed by one finish()
AddsThenFinish ==
    /\ cpio_calls # <<>>
    /\ cpio_calls[Len(cpio_calls)].op = "finish"
    /\ \A i \in 1..(Len(cpio_calls) - 1) : IsAdd(cpio_calls[i])

KindType(c) ==
    IF c.op = "add_directory" THEN S_IFDIR
    ELSE IF c.op = "add_symlink" THEN S_IFLNK
    ELSE S_IFREG

\* the entry an add call describes
EntryOf(c) ==
    FileInfo(c.path,
             IF c.op = "add_file" THEN Len(ContentBytes(c.content)) ELSE 0,
             PyInt(EnsureType(c.mode, KindType(c))), c.uid, c.gid,
             c.op = "add_directory", c.op = "add_symlink",
             IF c.op = "add_symlink" THEN c.target ELSE None)

SameEntry(a, b) ==
    /\ a.path = b.path
    /\ a.mode = b.mode
    /\ a.uid = b.uid
    /\ a.gid = b.gid
    /\ a.size = b.size
    /\ a.is_dir = b.is_dir
    /\ a.is_symlink = b.is_symlink
    /\ a.is_symlink => a.symlink_target = b.symlink_target

\* the reader returned one entry per add call, in order
ReadsBackCalls(calls, read) ==
    /\ read.status = "trailer"
    /\ Len(read.entries) = Len(calls)
    /\ \A i \in DOMAIN calls : SameEntry(read.entries[i], EntryOf(calls[i]))

HasRead == cpio_read.status \notin {"idle", "unread"}

\* C8 (as stated): after any add_file / add_directory / add_symlink calls
\* followed by finish(), reading the written bytes yields, in order, exactly
\* one entry per add call with the same path, mode, uid, gid, size, is_dir,
\* is_symlink and symlink_target.
C8_CpioRoundTrip ==
    (AddsThenFinish /\ HasRead) =>
        ReadsBackCalls(SubSeq(cpio_calls, 1, Len(cpio_calls) - 1), cpio_read)

(***************************************************************************)
(* Properties of the RPM writer (checked under SpecRpm)                     *)
(***************************************************************************)
RpmHasRead == rpm_read.status \notin {"idle", "unread"}

\* the add calls with the leading slashes of their paths removed
StrippedCalls ==
    [i \in DOMAIN rpm_calls |->
        [rpm_calls[i] EXCEPT !.path = lstrip_slash(@)]]

\* C9 (as stated): for every file list added and every compression setting
\* among gzip, xz, bzip2 and none, reading the written file yields a
\* FileInfo stream equal to the list in add order, up to the leading slash
\* of each path.
C9_RpmRoundTrip == RpmHasRead => ReadsBackCalls(StrippedCalls, rpm_read)

\* C10 (as stated): the PAYLOADCOMPRESSOR value written in the main header
\* names the codec that _compress_payload applied, so a reader that selects
\* its decoder from tag 1125 decodes the payload to the cpio archive that
\* was built.
C10_CompressorNamesCodec ==
    RpmHasRead =>
        /\ rpm_read.compressor = rpm_writer.compression
        /\ rpm_read.status # "Decompression"
        /\ rpm_read.cpio = build_cpio_payload(rpm_writer)

(***************************************************************************)
(* Properties of the comparison engine (checked under SpecCompare)          *)
(***************************************************************************)
\* the paths a result list names
ListPaths(list) == {list[i][1] : i \in DOMAIN list}

\* the pattern occurs somewhere in the path
Occurs(pat, path) == \E i \in 1..(Len(path) + 1) : MatchAt(pat, path, i)

\* the filter rule: some include pattern occurs (or none was given) and no
\* exclude pattern occurs
Accepted(path, f) ==
    /\ \/ f.include_patterns = <<>>
       \/ \E i \in DOMAIN f.include_patterns : Occurs(f.include_patterns[i], path)
    /\ ~\E i \in DOMAIN f.exclude_patterns : Occurs(f.exclude_patterns[i], path)

ResultLists ==
    {"only_in_expected", "only_in_got", "symlink_target_changed",
     "metadata_changed", "size_changed"}

\* C1: comparing a tree with a got stream that yields exactly the entries of
\* that tree (in any order) returns all five result lists empty, under
\* every flags record.
C1_SelfCompareEmpty ==
    (cmp_pc = "done" /\ Range(got) = Range(expected_in))
        => results = EmptyResults

C1_Witness ==
    /\ cmp_pc = "done"
    /\ Range(got) = Range(expected_in)
    /\ Len(got) >= 2
    /\ \A i \in DOMAIN got : Accepted(got[i].path, flags)
    /\ results = EmptyResults

\* C2: no path is named by more than one of the five result lists, and no
\* list names a path twice, at any point of the scan; this covers an entry
\* that differs from its counterpart in mode and size, or in symlink target
\* and mode.
C2_ListsDisjoint ==
    /\ \A l1, l2 \in ResultLists :
          l1 # l2 => ListPaths(results[l1]) \cap ListPaths(results[l2]) = {}
    /\ \A l \in ResultLists :
          Cardinality(ListPaths(results[l])) = Len(results[l])

\* got entry i was compared with an expected entry from which it differs
\* in mode and in `field`
DiffersInModeAnd(i, field) ==
    /\ i <= got_pos
    /\ Accepted(got[i].path, flags)
    /\ got[i].path \in Paths(expected_in)
    /\ LET old == Lookup(expected_in, got[i].path)
       IN  /\ old.mode # got[i].mode
           /\ old[field] # got[i][field]
           /\ old.is_symlink = got[i].is_symlink

C2_Witness ==
    /\ cmp_pc = "done"
    /\ \E i \in DOMAIN got : DiffersInModeAnd(i, "size")
    /\ \E i \in DOMAIN got : DiffersInModeAnd(i, "symlink_target")

\* C3: should_include_path keeps a path iff some include pattern occurs at
\* some position of it (or no include pattern was given) and no exclude
\* pattern occurs; and a path the filter rejects is named by none of the
\* five result lists, whether it came from expected or from got.
C3_FilterRespected ==
    /\ \A path \in Paths(expected_in) \cup Paths(got) :
          Included(path, flags) <=> Accepted(path, flags)
    /\ \A l \in ResultLists :
          \A path \in ListPaths(results[l]) : Accepted(path, flags)

C3_Witness ==
    /\ cmp_pc = "done"
    /\ flags.include_patterns # <<>>
    /\ flags.exclude_patterns # <<>>
    /\ \E path \in Paths(expected_in) \ Paths(got) : ~Accepted(path, flags)
    /\ \E path \in Paths(got) \ Paths(expected_in) : ~Accepted(path, flags)
    /\ \E path \in Paths(got) : Accepted(path, flags)

\* C4: during the scan the working copy of expected holds the accepted
\* expected paths minus the paths got has yielded (every got entry removes
\* its own path and no other); after the scan only_in_expected names
\* exactly the accepted expected paths got never yielded, and only_in_got
\* exactly the accepted got paths absent from expected.
C4_OnlyInLists ==
    /\ cmp_pc \in {"scan", "done"} =>
          Paths(expected) =
              {path \in Paths(expected_in) : Accepted(path, flags)}
                  \ {got[i].path : i \in 1..got_pos}
    /\ cmp_pc = "done" =>
          /\ ListPaths(results.only_in_expected) =
                {path \in Paths(expected_in) :
                    Accepted(path, flags) /\ path \notin Paths(got)}
          /\ ListPaths(results.only_in_got) =
                {path \in Paths(got) :
                    Accepted(path, flags) /\ path \notin Paths(expected_in)}
          /\ \A i \in DOMAIN results.only_in_expected :
                results.only_in_expected[i][2] =
                    Lookup(expected_in, results.only_in_expected[i][1])
          /\ \A i \in DOMAIN results.only_in_got :
                results.only_in_got[i][2] \in Range(got)

C4_Witness ==
    /\ cmp_pc = "done"
    /\ Len(results.only_in_expected) >= 1
    /\ Len(results.only_in_got) >= 1
    /\ \E path \in Paths(expected_in) \ Paths(got) : ~Accepted(path, flags)

\* C5: for every path on both sides that the scan compared (the filters
\* accept it): a symlink on both sides with differing targets is reported
\* as (path, old_target, new_target) in symlink_target_changed and not in
\* metadata_changed; a symlink on exactly one side is reported in
\* metadata_changed.
C5_SymlinkReports ==
    cmp_pc = "done" =>
        \A i \in DOMAIN got :
            (Accepted(got[i].path, flags) /\ got[i].path \in Paths(expected_in)) =>
                LET new == got[i]
                    old == Lookup(expected_in, new.path)
                IN  /\ (old.is_symlink /\ new.is_symlink
                            /\ old.symlink_target # new.symlink_target) =>
                           /\ <<new.path, old.symlink_target, new.symlink_target>>
                                  \in Range(results.symlink_target_changed)
                           /\ new.path \notin ListPaths(results.metadata_changed)
                    /\ (old.is_symlink # new.is_symlink) =>
                           new.path \in ListPaths(results.metadata_changed)

C5_Witness ==
    /\ cmp_pc = "done"
    /\ \E i \in DOMAIN got : DiffersInModeAnd(i, "symlink_target")
    /\ \E i \in DOMAIN got :
          /\ Accepted(got[i].path, flags)
          /\ got[i].path \in Paths(expected_in)
          /\ Lookup(expected_in, got[i].path).is_symlink # got[i].is_symlink

(***************************************************************************)
(* Properties of check_size_threshold (checked under SpecThreshold)         *)
(***************************************************************************)
\* flags f with both thresholds replaced
WithThresholds(f, abs, pct) ==
    [f EXCEPT !.max_allowed_absolute_increase = abs,
              !.max_allowed_percent_increase = pct]

\* the values a larger threshold is drawn from
LargerAbs == 0..(MaxAbs + 2)
LargerPercent == PercentValues \cup {400}

\* C6 as claimed: a pass stays a pass when either threshold is enlarged,
\* from any starting value, 0 included for the absolute threshold.
C6_MonotoneFromAnyValue ==
    (thr_pc = "done" /\ thr_result.passed) =>
        \A abs \in LargerAbs, pct \in LargerPercent :
            (/\ abs >= thr_flags.max_allowed_absolute_increase
             /\ pct >= thr_flags.max_allowed_percent_increase) =>
                check_size_threshold(thr_old, thr_new,
                                     WithThresholds(thr_flags, abs, pct)).passed

\* C6 as amended: a pass stays a pass when max_allowed_percent_increase is
\* enlarged, and when max_allowed_absolute_increase is enlarged from a
\* positive value (0 disables the absolute check, so it is the most
\* permissive value, not the least).
C6_MonotoneWhenEnabled ==
    (thr_pc = "done" /\ thr_result.passed) =>
        \A abs \in LargerAbs, pct \in LargerPercent :
            (/\ abs >= thr_flags.max_allowed_absolute_increase
             /\ pct >= thr_flags.max_allowed_percent_increase
             /\ \/ thr_flags.max_allowed_absolute_increase > 0
                \/ abs = thr_flags.max_allowed_absolute_increase) =>
                check_size_threshold(thr_old, thr_new,
                                     WithThresholds(thr_flags, abs, pct)).passed

\* a pass at the boundary of an enabled absolute threshold, decided by
\* both checks
C6_Witness ==
    /\ thr_pc = "done"
    /\ thr_result.passed
    /\ thr_flags.max_allowed_absolute_increase > 0
    /\ thr_new - thr_old = thr_flags.max_allowed_absolute_increase
    /\ thr_old >= thr_flags.minimum_compare_size
    /\ thr_old > 0

\* C7: with non-negative thresholds a size that does not grow (new <= old)
\* passes, whether show_decreases is false or true.
C7_DecreasePasses ==
    (thr_pc = "done" /\ thr_new <= thr_old) => thr_result.passed

C7_Witness ==
    /\ thr_pc = "done"
    /\ thr_new < thr_old
    /\ thr_flags.show_decreases
    /\ thr_old >= thr_flags.minimum_compare_size
    /\ thr_flags.max_allowed_absolute_increase > 0
    /\ thr_old - thr_new > thr_flags.max_allowed_absolute_increase
    /\ thr_flags.max_allowed_percent_increase = 0
    /\ thr_result.passed

(***************************************************************************)
(* Properties of the RPM header and file layout (checked under SpecRpm)     *)
(***************************************************************************)
RpmWritten == rpm_file \notin {<<>>, Raised}

\* the data of the entry _build_header adds under tag
HeaderTagData(tag) ==
    LET entries == HeaderEntries(rpm_writer, CHOOSE now \in Times : TRUE)
    IN  entries[CHOOSE k \in DOMAIN entries : entries[k].tag = tag].data

\* the number of "/" a path begins with
LeadingSlashes(path) ==
    Cardinality({k \in DOMAIN path : \A j \in 1..k : path[j] = 47})

\* the path with exactly one leading slash
WithOneSlash(path) ==
    Slash \o SubSeq(path, LeadingSlashes(path) + 1, Len(path))

\* the first file whose DIRINDEXES value is k
FirstUse(dirindexes, k) ==
    CHOOSE i \in DOMAIN dirindexes :
        /\ ToInt(dirindexes[i]) = k
        /\ \A j \in 1..(i - 1) : ToInt(dirindexes[j]) # k

\* C11 (as stated): BASENAMES and DIRINDEXES have one element per file in add
\* order; DIRNAMES has no duplicate and lists the dirnames in order of first
\* occurrence; for every file, DIRNAMES[DIRINDEXES[i]] is "/" + parent + "/"
\* (or "/") and DIRNAMES[DIRINDEXES[i]] + BASENAMES[i] is the file's path
\* with exactly one leading slash.
C11_DirnamesSplitPaths ==
    (RpmWritten /\ rpm_writer.files # <<>>) =>
        LET files == rpm_writer.files
            dirnames == HeaderTagData(RPMTAG_DIRNAMES)
            basenames == HeaderTagData(RPMTAG_BASENAMES)
            dirindexes == HeaderTagData(RPMTAG_DIRINDEXES)
        IN  /\ DOMAIN basenames = DOMAIN files
            /\ DOMAIN dirindexes = DOMAIN files
            /\ \A i \in DOMAIN files :
                 ToInt(dirindexes[i]) \in 0..(Len(dirnames) - 1)
            /\ \A k, l \in DOMAIN dirnames :
                 dirnames[k] = dirnames[l] => k = l
            /\ \A k \in DOMAIN dirnames :
                 \E i \in DOMAIN files : ToInt(dirindexes[i]) = k - 1
            /\ \A k, l \in DOMAIN dirnames :
                 k < l => FirstUse(dirindexes, k - 1)
                            < FirstUse(dirindexes, l - 1)
            /\ \A i \in DOMAIN files :
                 LET dirname == dirnames[ToInt(dirindexes[i]) + 1]
                 IN  /\ Head(dirname) = 47
                     /\ dirname[Len(dirname)] = 47
                     /\ \A j \in DOMAIN basenames[i] : basenames[i][j] # 47
                     /\ dirname \o basenames[i] = WithOneSlash(files[i].path)

\* the 32-bit value of an INT32 tag of header section h of the file
Int32Tag(file, h, tag) ==
    LET k == CHOOSE k \in TagEntries(file, h, tag) : TRUE
        offset == Unpack32(file, h.index_start + 16 * k + 8)
    IN  Unpack32(file, h.store_start + ToInt(offset))

\* C12: in every file written, the lead is exactly 96 bytes, the signature
\* section with its padding has a length that is a multiple of 8, the main
\* header magic begins at a file offset that is a multiple of 8, and
\* SIGTAG_SIZE is the number of bytes that follow the signature section
\* (main header plus payload).
C12_LeadAndSignatureLayout ==
    RpmWritten =>
        LET sig == ParseHeader(rpm_file, 96)
            header == build_header(rpm_writer, CHOOSE now \in Times : TRUE)
            payload == compress_payload(rpm_writer,
                                        build_cpio_payload(rpm_writer))
            header_start == Len(rpm_file) - Len(header) - Len(payload)
        IN  /\ Len(build_lead(rpm_writer)) = 96
            /\ SubSeq(rpm_file, 1, 96) = build_lead(rpm_writer)
            /\ sig.status = "ok"
            /\ sig.end <= header_start
            /\ (header_start - 96) % 8 = 0
            /\ header_start % 8 = 0
            /\ \A j \in (sig.end + 1)..header_start : rpm_file[j] = 0
            /\ SubSeq(rpm_file, header_start + 1, header_start + 3)
                    = RPM_HEADER_MAGIC
            /\ TagEntries(rpm_file, sig, SIGTAG_SIZE) # {}
            /\ Int32Tag(rpm_file, sig, SIGTAG_SIZE)
                    = PyInt(Len(rpm_file) - header_start)

\* a file was written for the package with the long name and two files
C12_Witness ==
    /\ RpmWritten
    /\ Len(rpm_writer.name) > 60
    /\ Len(rpm_writer.files) = 2

(***************************************************************************)
(* Alignment of the cpio stream (checked under SpecCpio)                    *)
(***************************************************************************)
\* C14 (as stated): for a CpioWriter whose stream starts empty, after every
\* add_file, add_directory, add_symlink or finish call the total number of
\* bytes written is a multiple of 4, so every entry header and every entry
\* content starts at a 4-byte-aligned offset.
C14_StreamAlignedTo4 == Len(cpio_stream) % 4 = 0

(***************************************************************************)
(* Mode defaulting (checked under SpecMode)                                 *)
(***************************************************************************)
\* the mode field of the first header of a cpio stream: 8 digits after the
\* magic and the inode
HeaderModeField(stream) == SubSeq(stream, 15, 22)

\* the mode with the type bits of the kind of the call; the caller's mode
\* has no type bits, so "or" is addition
DefaultedMode(c) == c.mode + KindType(c)

\* C13: for an add_file, add_directory or add_symlink call whose mode has no
\* file-type bits, the mode recorded by CpioWriter (in the header) and by
\* RpmWriter (in its files list) is mode | S_IFREG, mode | S_IFDIR or
\* mode | S_IFLNK according to the kind of the call, with the caller's
\* permission bits.
C13_ModeDefaulting ==
    TypeBits(mode_call.mode) = 0 =>
        /\ mode_cpio # <<>> =>
             /\ HeaderModeField(mode_cpio)
                    = Format08X(PyInt(DefaultedMode(mode_call)))
             /\ ToInt(ParseHex8(HeaderModeField(mode_cpio))) % 4096
                    = mode_call.mode
        /\ mode_rpm # <<>> =>
             /\ mode_rpm[1].mode = DefaultedMode(mode_call)
             /\ TypeBits(mode_rpm[1].mode) = KindType(mode_call)
             /\ mode_rpm[1].mode % 4096 = mode_call.mode

\* add_directory with mode 0o755 was made on both writers
C13_Witness ==
    /\ mode_call = [op |-> "add_directory", mode |-> 493]
    /\ mode_cpio # <<>>
    /\ mode_rpm # <<>>

(***************************************************************************)
(* Properties of PkgReader (checked under SpecPkg)                          *)
(***************************************************************************)
PkgOpened == pkg_status \notin {"idle", "new"}

\* the Payload elements of the package, in document order
PkgPayloads ==
    SelectSeq(pkg_data.toc, LAMBDA e : e.name = Payload /\ e.has_data)

\* the heap slice [offset, offset + length) of a payload
HeapSlice(info) ==
    SubSeq(pkg_data.heap, info.offset + 1, info.offset + info.length)

\* the codecs of the claim: a stream is the magic number of its format
\* followed by the data
Gunzip(data) == SubSeq(data, Len(GzipMagic) + 1, Len(data))
Bunzip2(data) == SubSeq(data, Len(Bzip2Magic) + 1, Len(data))

\* the decoding that the encoding of a payload selects, applied to its slice
SelectedDecoding(info) ==
    IF info.encoding = EncGzip THEN Gunzip(HeapSlice(info))
    ELSE IF info.encoding = EncBzip2 THEN Bunzip2(HeapSlice(info))
    ELSE HeapSlice(info)

\* the slice of the payload is a stream of the codec its encoding names
WellEncoded(info) ==
    /\ info.offset + info.length <= Len(pkg_data.heap)
    /\ info.encoding = EncGzip => IsPrefix(GzipMagic, HeapSlice(info))
    /\ info.encoding = EncBzip2 => IsPrefix(Bzip2Magic, HeapSlice(info))

\* C15 (as stated): for each Payload entry, the bytes handed to the cpio
\* parser are the heap slice decoded by exactly the decoding the encoding
\* selects (gunzip, bunzip2, or none); no further decompression is applied
\* before cpio parsing.
C15_PayloadDecodedAsEncoded ==
    PkgOpened =>
        \A i \in DOMAIN PkgPayloads :
            (\A j \in 1..i : WellEncoded(PkgPayloads[j])) =>
                /\ i \in DOMAIN pkg_fed
                /\ pkg_fed[i] = SelectedDecoding(PkgPayloads[i])

\* path a sorts before path b: str comparison, by code point
PathLess(a, b) ==
    \E k \in 1..(Len(a) + 1) :
        /\ k <= Len(b)
        /\ \A j \in 1..(k - 1) : j <= Len(a) /\ a[j] = b[j]
        /\ (k = Len(a) + 1 \/ a[k] < b[k])

\* the FileInfo entries the next() calls of the PkgReader returned
PkgYielded ==
    SelectSeq(pkg_out, LAMBDA r : ~r.none)

\* C16 (as stated, for PkgReader): the entries returned by successive
\* next() calls are in non-decreasing lexicographic order of path.
C16_SnapshotReadersSorted ==
    \A i, j \in DOMAIN PkgYielded :
        i < j => ~PathLess(PkgYielded[j].info.path, PkgYielded[i].info.path)

\* C17 (as stated, for PkgReader): the FileInfo stream has pairwise-distinct
\* path values.
C17_PathsDistinct ==
    \A i, j \in DOMAIN PkgYielded :
        PkgYielded[i].info.path = PkgYielded[j].info.path => i = j

(***************************************************************************)
(* Properties of HfsPlusReader and DmgReader (checked under SpecDmg)        *)
(***************************************************************************)
HfsListed == hfs_pc = "listed"

\* the entry invariants of a FileInfo
DirHasNoSize(info) == info.is_dir => info.size = 0
SymlinkHasNoSize(info) == info.is_symlink => info.size = 0
SymlinkHasTarget(info) == info.is_symlink => info.symlink_target # None
NotDirAndSymlink(info) == ~(info.is_dir /\ info.is_symlink)

\* C18: every FileInfo get_all_files produces satisfies: is_dir implies
\* size = 0; is_symlink implies size = 0 and a symlink_target that is not
\* null; is_dir and is_symlink are never both true.
C18_HfsEntryInvariants ==
    HfsListed =>
        \A k \in DOMAIN hfs_files :
            /\ DirHasNoSize(hfs_files[k])
            /\ SymlinkHasNoSize(hfs_files[k])
            /\ SymlinkHasTarget(hfs_files[k])
            /\ NotDirAndSymlink(hfs_files[k])

(***************************************************************************)
(* Properties of decompress_udif (checked under SpecUdif)                   *)
(***************************************************************************)
\* the chunks of the claim: an unsupported codec (ADC, or LZFSE while the
\* codec is missing) or a chunk whose decompression fails
Unsupported(chunk) ==
    \/ chunk.type = BLOCK_ADC
    \/ chunk.type = BLOCK_LZFSE /\ ~udif_lzfse
FailsToDecompress(chunk) ==
    \/ chunk.type = BLOCK_ZLIB /\ zlib_decompress(chunk.compressed) = Raised
    \/ chunk.type = BLOCK_BZ2 /\ bz2_decompress(chunk.compressed) = Raised
    \/ chunk.type = BLOCK_LZMA /\ lzma_decompress(chunk.compressed) = Raised
    \/ /\ chunk.type = BLOCK_LZFSE /\ udif_lzfse
       /\ lzfse_decompress(chunk.compressed) = Raised
Failing(chunk) == Unsupported(chunk) \/ FailsToDecompress(chunk)

\* the image range of a chunk, and the chunks that share sectors with it
ImageRange(chunk) ==
    SubSeq(udif_image, chunk.sector_number * SECTOR_SIZE + 1,
           (chunk.sector_number + chunk.sector_count) * SECTOR_SIZE)
Overlapped(k) ==
    \E j \in DOMAIN udif_chunks :
        /\ j # k
        /\ udif_chunks[j].sector_number
              < udif_chunks[k].sector_number + udif_chunks[k].sector_count
        /\ udif_chunks[k].sector_number
              < udif_chunks[j].sector_number + udif_chunks[j].sector_count

\* the chunks that hold data and decompress, and their data
HoldsData(chunk) ==
    /\ chunk.type \in {BLOCK_RAW, BLOCK_ZLIB, BLOCK_BZ2, BLOCK_LZMA,
                       BLOCK_LZFSE}
    /\ ~Failing(chunk)
DataOf(chunk) ==
    IF chunk.type = BLOCK_RAW THEN chunk.compressed
    ELSE IF chunk.type = BLOCK_ZLIB THEN zlib_decompress(chunk.compressed)
    ELSE IF chunk.type = BLOCK_BZ2 THEN bz2_decompress(chunk.compressed)
    ELSE IF chunk.type = BLOCK_LZMA THEN lzma_decompress(chunk.compressed)
    ELSE lzfse_decompress(chunk.compressed)

\* what the claim says of the chunks when the function has returned
FailingSkipped ==
    \A k \in DOMAIN udif_chunks :
        Failing(udif_chunks[k]) =>
            /\ \E w \in DOMAIN udif_warnings : udif_warnings[w] = k
            /\ ~Overlapped(k) =>
                   ImageRange(udif_chunks[k])
                       = Zeros(udif_chunks[k].sector_count * SECTOR_SIZE)
OthersPlaced ==
    \A k \in DOMAIN udif_chunks :
        HoldsData(udif_chunks[k]) /\ ~Overlapped(k) =>
            ImageRange(udif_chunks[k]) = DataOf(udif_chunks[k])

\* C19 (as stated): an unsupported codec and a decompression failure of a
\* single chunk do not abort decompress_udif: the function returns the
\* image, the failing chunk is skipped with a warning and its range stays
\* zero, and every other chunk is placed.
C19_FailingChunkSkipped ==
    /\ udif_pc # "raised"
    /\ udif_pc = "returned" => FailingSkipped /\ OthersPlaced

(***************************************************************************)
(* Properties of list_contents (checked under SpecPipeFair)                 *)
(***************************************************************************)
\* the bytes read, followed by the bytes in the pipe, are the bytes written:
\* nothing is lost, duplicated or out of order
PipeFifo == cons_got \o pipe_buf = pipe_written

\* the thread has not ended without closing the pipe
ClosedOnEveryPath == prod_pc = "done" => pipe_closed

\* a read meets the end of the pipe only when the pipe is closed and all
\* that was written has been read
DrainThenEof ==
    cons_eof => pipe_closed /\ pipe_buf = <<>> /\ cons_got = pipe_written

\* C20: under every interleaving of the decompress thread and the read loop
\* the consumer receives the bytes in the order written, none lost or
\* duplicated; the producer closes the pipe after normal completion and
\* after an exception in stream_cpio; once the pipe is closed the consumer
\* drains the remaining bytes, then sees EOF, so the read loop ends.
C20_PipeDeliversAndTerminates ==
    /\ [](PipeFifo /\ ClosedOnEveryPath /\ DrainThenEof)
    /\ <>pipe_closed
    /\ <>(main_pc = "returned")

\* stream_cpio raised after it wrote some bytes, the pipe was closed, and
\* the read loop read those bytes, met the end of the pipe and ended
C20_Witness ==
    /\ prod_raised
    /\ prod_pc = "done"
    /\ pipe_closed
    /\ Len(pipe_written) >= 2
    /\ Len(pipe_written) < Len(pipe_stream)
    /\ cons_got = pipe_written
    /\ cons_eof
    /\ main_pc = "returned"

(***************************************************************************)
(* Properties of the tar reader (checked under SpecTar)                     *)
(***************************************************************************)
\* C21 (as stated): the path yielded for a tar header name never begins
\* with "./" or with "/".
C21_TarPathsRelative ==
    \A k \in DOMAIN tar_paths :
        ~IsPrefix(DotSlash, tar_paths[k]) /\ ~IsPrefix(Slash, tar_paths[k])

(***************************************************************************)
(* Properties of main of rpm_info (checked under SpecInfo)                  *)
(***************************************************************************)
InfoDone == info_pc = "done"

\* C22 (as stated): for a well-formed RPM file main runs the handler of the
\* selected mode and returns 0 in each of its modes; it returns 1 exactly
\* when opening or parsing raises FileNotFoundError or ValueError; no other
\* exception leaves main.
C22_MainReturnsZeroOrOne ==
    InfoDone =>
        /\ info_file = "wellformed" => info_result = "0"
        /\ info_result = "1" <=> info_file \in {"missing", "malformed"}
        /\ info_result \in {"0", "1"}

(***************************************************************************)
(* Properties of RpmHeaderBuilder.build (checked under SpecHdr)             *)
(***************************************************************************)
HdrBuilt == hdr_pc = "built"

\* the fields of the built header: the entry count, data_len, where the data
\* store begins, and the type and the offset of index entry k (from 0)
HdrCount == ToInt(Unpack32(hdr_bytes, 8))
HdrDataLen == ToInt(Unpack32(hdr_bytes, 12))
HdrStoreStart == 16 + 16 * HdrCount
HdrType(k) == ToInt(Unpack32(hdr_bytes, 16 + 16 * k + 4))
HdrOffset(k) == ToInt(Unpack32(hdr_bytes, 16 + 16 * k + 8))

\* the bytes of the data store from offset on, as many as value has
HdrStoreAt(offset, value) ==
    SubSeq(hdr_bytes, HdrStoreStart + offset + 1,
           HdrStoreStart + offset + Len(value))

\* C23: in every built header the offset of each INT16 entry is a multiple
\* of 2 and of each INT32 entry a multiple of 4; the offset is the data
\* store position of the first byte of the entry's value; data_len is the
\* length of the data store, padding included.
C23_OffsetsAlignedAndExact ==
    HdrBuilt =>
        /\ HdrCount = Len(hdr_entries)
        /\ HdrDataLen = Len(hdr_bytes) - HdrStoreStart
        /\ \A k \in 0..(HdrCount - 1) :
              /\ HdrType(k) = hdr_entries[k + 1].type
              /\ HdrType(k) = HEADER_INT16 => HdrOffset(k) % 2 = 0
              /\ HdrType(k) = HEADER_INT32 => HdrOffset(k) % 4 = 0
              /\ HdrOffset(k) + Len(EntryBytes(hdr_entries[k + 1]))
                    <= HdrDataLen
              /\ HdrStoreAt(HdrOffset(k), EntryBytes(hdr_entries[k + 1]))
                    = EntryBytes(hdr_entries[k + 1])
              /\ k = HdrCount - 1 =>
                    HdrOffset(k) + Len(EntryBytes(hdr_entries[k + 1]))
                        = HdrDataLen

\* a built header in which padding precedes an INT32 value and an INT16
\* value
C23_Witness ==
    /\ HdrBuilt
    /\ HdrCount = 3
    /\ HdrType(0) = HEADER_BIN
    /\ HdrType(1) = HEADER_INT16 /\ HdrOffset(1) = 2
    /\ HdrType(2) = HEADER_INT32 /\ HdrOffset(2) = 4
    /\ HdrDataLen = 12

(***************************************************************************)
(* The headers of the cpio writer (checked under SpecCpio)                  *)
(***************************************************************************)
\* the writer after a call, and after the first k calls made
ApplyCall(w, c) ==
    IF c.op = "add_file"
    THEN add_file(w, c.path, c.content, c.mode, c.uid, c.gid, c.mtime)
    ELSE IF c.op = "add_directory"
    THEN add_directory(w, c.path, c.mode, c.uid, c.gid, c.mtime)
    ELSE IF c.op = "add_symlink"
    THEN add_symlink(w, c.path, c.target, c.mode, c.uid, c.gid, c.mtime)
    ELSE finish(w)

RECURSIVE WriterAfter(_)
WriterAfter(k) ==
    IF k = 0 THEN NewWriter
    ELSE ApplyCall(WriterAfter(k - 1), cpio_calls[k])

\* the name and the content a call writes after its header
NameOf(c) == IF c.op = "finish" THEN Trailer ELSE c.path
NameBytes(c) == Utf8Encode(NameOf(c)) \o <<0>>
ContentLen(c) ==
    IF c.op = "add_file" THEN Len(ContentBytes(c.content))
    ELSE IF c.op = "add_symlink" THEN Len(Utf8Encode(c.target))
    ELSE 0

\* the header call k wrote: what it wrote before the name, the padding
\* after the name, the content and the padding after the content
HeaderOfCall(k) ==
    LET c == cpio_calls[k]
        start == Len(WriterAfter(k - 1).stream)
        after == Len(NameBytes(c)) + pad_to_4(110 + Len(NameBytes(c)))
                    + ContentLen(c) + pad_to_4(ContentLen(c))
    IN  SubSeq(cpio_stream, start + 1, Len(WriterAfter(k).stream) - after)

\* C24 (as stated): every header written is exactly 110 ASCII bytes, the
\* magic 070701 followed by thirteen fields of 8 hexadecimal digits, for
\* all values the caller can supply; a value that does not fit in 32 bits
\* never shifts the following fields (the namesize field is the 12th).
C24_HeaderIs110Bytes ==
    \A k \in DOMAIN cpio_calls :
        /\ Len(HeaderOfCall(k)) = 110
        /\ SubSeq(HeaderOfCall(k), 1, 6) = CpioMagic
        /\ SubSeq(HeaderOfCall(k), 95, 102)
              = Format08X(PyInt(Len(NameBytes(cpio_calls[k]))))

\* the inode field of the header call k wrote
InodeField(k) == SubSeq(HeaderOfCall(k), 7, 14)

\* C30 (as stated): for every sequence of add_file, add_directory,
\* add_symlink and finish calls, the only entry named TRAILER!!! is the last
\* one written: no entry is written after the trailer, and no add call
\* writes an entry with that name; the inode numbers of the entries are
\* 1, 2, 3, ... in write order.
C30_TrailerLastAndInodesCount ==
    \A k \in DOMAIN cpio_calls :
        /\ NameOf(cpio_calls[k]) = Trailer =>
              k = Len(cpio_calls) /\ cpio_calls[k].op = "finish"
        /\ InodeField(k) = Format08X(PyInt(k))

\* the image positions (from 1) of the sector range of a chunk
SectorRange(chunk) ==
    (chunk.sector_number * SECTOR_SIZE + 1)
        ..((chunk.sector_number + chunk.sector_count) * SECTOR_SIZE)

\* C25 (as stated): a step of the chunk loop changes no image byte outside
\* the sector range of the chunk it places, whatever the length of the
\* decoded data, and leaves the length of the image as allocated.
C25_PlacementStaysInRange ==
    [][(udif_pc = "loop" /\ udif_k \in DOMAIN udif_chunks) =>
          /\ Len(udif_image') = Len(udif_image)
          /\ \A i \in DOMAIN udif_image :
                i \notin SectorRange(udif_chunks[udif_k]) =>
                    udif_image'[i] = udif_image[i]]_vars

(***************************************************************************)
(* Path reconstruction (checked under SpecDmg)                              *)
(***************************************************************************)
\* the CNIDs of a catalog
CnidsOf(entries) == {entries[k].cnid : k \in DOMAIN entries}

\* walk is the parent chain build_path follows from cnid, outermost first:
\* every CNID on it is in the catalog and is on it once, each is the parent
\* of the next, none but the first has a parent that is the root folder or
\* the root parent, and the walk ends at the first for one of the three
\* reasons the loop has to end
IsWalk(entries, cnid, walk) ==
    /\ walk # <<>>
    /\ walk[Len(walk)] = cnid
    /\ \A i, j \in DOMAIN walk : walk[i] = walk[j] => i = j
    /\ \A i \in 2..Len(walk) :
          /\ EntryAt(entries, walk[i]).parent_cnid = walk[i - 1]
          /\ walk[i - 1] \notin {ROOT_FOLDER_CNID, ROOT_PARENT_CNID}
    /\ LET top == EntryAt(entries, walk[1]).parent_cnid
       IN  \/ top \in {ROOT_FOLDER_CNID, ROOT_PARENT_CNID}
           \/ ~HasEntry(entries, top)
           \/ top \in Range(walk)
NamesOf(entries, walk) ==
    [i \in DOMAIN walk |-> EntryAt(entries, walk[i]).name]

\* C26: build_path ends for every catalog, with cycles and missing parents
\* among them: for a CNID of the catalog it returns the names, joined with
\* "/", of a parent chain that holds each CNID at most once and stops at
\* the first entry whose parent is the root folder or the root parent; for
\* a CNID that is not in the catalog (99 is in none) it returns the empty
\* string.
C26_BuildPathWalksChainOnce ==
    /\ build_path(hfs_entries, 99) = <<>>
    /\ \A cnid \in CnidsOf(hfs_entries) :
          \E walk \in SeqsUpTo(CnidsOf(hfs_entries), Len(hfs_entries)) :
              /\ IsWalk(hfs_entries, cnid, walk)
              /\ build_path(hfs_entries, cnid)
                     = JoinSlash(NamesOf(hfs_entries, walk))

\* a listed catalog with the cycle "x" <-> "y": the walk from "x" stops
\* when it comes back to "x", and the file is listed as "y/x"
C26_Witness ==
    /\ HfsListed
    /\ {27, 28} \subseteq CnidsOf(hfs_entries)
    /\ \E k \in DOMAIN hfs_files : hfs_files[k].path = <<121, 47, 120>>

(***************************************************************************)
(* The iteration protocol of DmgReader (checked under SpecDmg)              *)
(***************************************************************************)
\* what the calls of next() made so far returned: the items in list order,
\* each once, and None from then on
DmgReturnedInOrder ==
    \A k \in DOMAIN dmg_out :
        dmg_out[k] = IF k <= Len(dmg_items) THEN Returned(dmg_items[k])
                     ELSE ReturnedNone

\* a call of is_done() that changes the recorded answer: the answer is
\* true exactly when the next call of next() would return None, and the
\* reader is left as it was
DmgIsDoneAnswer ==
    dmg_asked' # dmg_asked =>
        /\ dmg_asked' = "true" <=> dmg_index >= Len(dmg_items)
        /\ UNCHANGED <<dmg_items, dmg_index, dmg_done, dmg_out>>

\* C29 (as stated, for DmgReader): over every sequence of next() and
\* is_done() calls, next() returns the loaded items once each in list order
\* and then None on every later call; is_done() is true exactly when the
\* next call of next() would return None, also right after the last item
\* and right after the construction of a reader with no items; and
\* is_done() changes no state.
C29_IsDoneTellsNextIsNone ==
    [](dmg_status = "open" => DmgReturnedInOrder) /\ [][DmgIsDoneAnswer]_vars

(***************************************************************************)
(* Properties of _read_catalog (checked under SpecCatFair)                  *)
(***************************************************************************)
CatReturned == cat_pc = "returned"
ParsedAtMostOnce == \A i \in DOMAIN cat_parsed : cat_parsed[i] <= 1

\* C28 (as stated): _read_catalog terminates for every catalog: the walk of
\* the leaf chain through fLink ends even when the fLink values of the
\* nodes form a cycle, and each node is parsed at most once.
C28_CatalogWalkTerminates == <>CatReturned /\ []ParsedAtMostOnce

(***************************************************************************)
(* Properties of _find_hfs_blkx (checked under SpecBlkx)                    *)
(***************************************************************************)
BlkxEnded == blkx_pc \in {"returned", "ValueError"}

\* an entry with a valid mish header, and the sector count of its header
ValidMish(entry) ==
    /\ Len(entry.Data) >= 24
    /\ SubSeq(entry.Data, 1, 4) = <<109, 105, 115, 104>>
MishSectors(entry) == unpack_be(entry.Data, 16, 8)

FirstNamedHfs(k) ==
    /\ IsSubstring(AppleHFS, blkx_list[k].Name)
    /\ \A j \in 1..(k - 1) : ~IsSubstring(AppleHFS, blkx_list[j].Name)
LargestValidMish(k) ==
    /\ ValidMish(blkx_list[k])
    /\ \A j \in DOMAIN blkx_list :
          ValidMish(blkx_list[j]) =>
              MishSectors(blkx_list[j]) <= MishSectors(blkx_list[k])

\* C27 (as stated): _find_hfs_blkx returns the first entry whose Name
\* contains "Apple_HFS"; when no entry has such a name it returns the entry
\* with the largest sector count among those with a valid mish header,
\* whenever there is one (also when all the sector counts are equal or 0);
\* it raises only when no entry has a valid mish header.
C27_HfsPartitionSelected ==
    BlkxEnded =>
        IF \E k \in DOMAIN blkx_list : IsSubstring(AppleHFS, blkx_list[k].Name)
        THEN blkx_pc = "returned" /\ FirstNamedHfs(blkx_found)
        ELSE IF \E k \in DOMAIN blkx_list : ValidMish(blkx_list[k])
        THEN blkx_pc = "returned" /\ LargestValidMish(blkx_found)
        ELSE blkx_pc = "ValueError"

====
